---- MODULE Spec2Model ----
(***************************************************************************)
(* The RISC-Vibe two-pass assembler (riscvibe_asm): source parser,         *)
(* pseudo-instruction expander, two-pass driver and encoder.               *)
(*                                                                         *)
(* Representation.                                                         *)
(*  - A Python int is unbounded, a TLC integer has 32 bits.  An int that   *)
(*    may leave that range (the literal of `li`, an encoded word) is a     *)
(*    pair [hi, lo] standing for hi * 4096 + lo with 0 <= lo < 4096.       *)
(*  - An operand string is a token record: a bare word ("id"), a numeric   *)
(*    literal ("num", sign and magnitude) or a text of the shape           *)
(*    off(base) ("mem").  Letter case and surrounding blanks are not       *)
(*    modelled: every text is already lower-case and stripped.             *)
(*  - A source line is [lab, mn, ops, cmt]: the characters before its      *)
(*    first ':' (empty when the line has none), the mnemonic text of the   *)
(*    statement ("" when there is none), the statement's operands, and     *)
(*    the marker ("#" or "//", "" when there is none) of the comment that  *)
(*    ends the line.                                                       *)
(***************************************************************************)
EXTENDS Integers, Sequences, FiniteSets, TLC

VARIABLES
    source,           \* the text handed to assemble_string, as raw lines
    lines,            \* Parser.lines: the ParsedLine records
    phase,            \* position of the run: idle, pass1, pass2, done, error
    idx,              \* index of the next line the current pass looks at
    symbols,          \* Assembler.symbols: label -> byte address
    instructions,     \* Assembler.instructions: the encoded words
    source_map,       \* Assembler.source_map: (addr, original, line_num)
    current_address,  \* Assembler.current_address
    pass1_pc,         \* value of current_address when _pass1 returned
    err,              \* the exception that ended the run (type "" = none)
    enc_log,          \* operands handed to encode_instruction, in call order
    history,          \* how each earlier call on this instance left it
    entry,            \* the entry point of the current call and its output_path
    out_file,         \* the text file at the output path, one entry per line
    li_tok,           \* pure-function harness: the literal of `li x5, <lit>`
    li_stage,         \* harness position: off, input, expanded, ran
    li_exp,           \* harness: expand_li's result
    li_rd,            \* harness: register x5 of the reference interpreter
    e_in,             \* encoder harness: the arguments of encode_instruction
    e_stage,          \* encoder harness position: off, input, encoded, rendered
    e_out,            \* encoder harness: encode_instruction's result
    e_hex,            \* encoder harness: get_hex_string of the one-word image
    arch_in,          \* architecture harness: the loaded YAML document
    arch_stage,       \* architecture harness position: off, input, parsed
    arch_out,         \* architecture harness: parse_architecture's outcome
    _architecture,    \* visualizer/app.py: the global _architecture
    _trace_parser,    \* visualizer/app.py: the global _trace_parser
    requests          \* visualizer/app.py: the requests being handled

vars == <<source, lines, phase, idx, symbols, instructions, source_map,
          current_address, pass1_pc, err, enc_log, history, entry, out_file,
          li_tok, li_stage, li_exp, li_rd, e_in, e_stage, e_out, e_hex,
          arch_in, arch_stage, arch_out, _architecture, _trace_parser, requests>>

asmVars == <<source, lines, phase, idx, symbols, instructions, source_map,
             current_address, pass1_pc, err, enc_log, history, entry, out_file>>

liVars == <<li_tok, li_stage, li_exp, li_rd>>

encVars == <<e_in, e_stage, e_out, e_hex>>

archVars == <<arch_in, arch_stage, arch_out>>

appVars == <<_architecture, _trace_parser, requests>>

\* what an assembler run leaves alone
harnessVars == <<liVars, encVars, archVars, appVars>>

(***************************************************************************)
(* Bounds                                                                  *)
(***************************************************************************)
\* longest source, in lines
MaxLines == 3
\* how far around each boundary value the `li` harness draws its literals
LiNear == 2

(***************************************************************************)
(* Python ints as radix-4096 pairs                                         *)
(***************************************************************************)
Radix == 2^12

Pow20 == 2^20

\* every encoder range lies inside -SatInt..SatInt
SatInt == 2^30

BigOf(n) == [hi |-> n \div Radix, lo |-> n % Radix]

BigNeg(b) ==
    IF b.lo = 0 THEN [hi |-> 0 - b.hi, lo |-> 0]
    ELSE [hi |-> 0 - b.hi - 1, lo |-> Radix - b.lo]

\* the int as a TLC integer; an int beyond +-2^30 saturates, which no
\* range check of the encoder can tell from the int itself
ToInt(b) ==
    IF b.hi >= SatInt \div Radix THEN SatInt
    ELSE IF b.hi < 0 - (SatInt \div Radix) THEN 0 - SatInt
    ELSE b.hi * Radix + b.lo

(***************************************************************************)
(* Operand strings                                                         *)
(***************************************************************************)
Id(s) == [k |-> "id", s |-> s, neg |-> FALSE, hi |-> 0, lo |-> 0, off |-> ""]

Lit(neg, hi, lo) ==
    [k |-> "num", s |-> "", neg |-> neg, hi |-> hi, lo |-> lo, off |-> ""]

\* the text off(base); off is "empty" for "(base)" and "-(base)"
Mem(offTok, base) ==
    [k |-> "mem", s |-> base, neg |-> offTok.neg, hi |-> offTok.hi,
     lo |-> offTok.lo, off |-> offTok.k]

EmptyOff == [k |-> "empty", s |-> "", neg |-> FALSE, hi |-> 0, lo |-> 0, off |-> ""]

\* Python's str() of an int
StrBig(b) ==
    IF b.hi < 0 THEN Lit(TRUE, BigNeg(b).hi, BigNeg(b).lo)
    ELSE Lit(FALSE, b.hi, b.lo)

Num(n) == StrBig(BigOf(n))

(***************************************************************************)
(* Results of functions that may raise.  located: the exception carries    *)
(* line_num and line_text.                                                 *)
(***************************************************************************)
Ok(v) == [ok |-> TRUE, val |-> v, etype |-> "", located |-> FALSE]

Raise(t, loc) == [ok |-> FALSE, val |-> 0, etype |-> t, located |-> loc]

\* the statements after a call that may raise: skipped when it raised
Then(r, Rest(_)) == IF r.ok THEN Rest(r.val) ELSE r

(***************************************************************************)
(* registers.py                                                            *)
(***************************************************************************)
XRegs == << "x0", "x1", "x2", "x3", "x4", "x5", "x6", "x7",
            "x8", "x9", "x10", "x11", "x12", "x13", "x14", "x15",
            "x16", "x17", "x18", "x19", "x20", "x21", "x22", "x23",
            "x24", "x25", "x26", "x27", "x28", "x29", "x30", "x31" >>

REG_ABI_NAMES == << "zero", "ra", "sp", "gp", "tp", "t0", "t1", "t2",
                    "s0", "s1", "a0", "a1", "a2", "a3", "a4", "a5",
                    "a6", "a7", "s2", "s3", "s4", "s5", "s6", "s7",
                    "s8", "s9", "s10", "s11", "t3", "t4", "t5", "t6" >>

REGISTER_MAP ==
    [n \in {XRegs[i] : i \in 1..32} \cup {REG_ABI_NAMES[i] : i \in 1..32}
           \cup {"fp"} |->
        IF n = "fp" THEN 8
        ELSE CHOOSE r \in 0..31 : XRegs[r + 1] = n \/ REG_ABI_NAMES[r + 1] = n]

is_valid_register(s) == s \in DOMAIN REGISTER_MAP

\* raises ValueError on a name that is not in the map
parse_register(tok) ==
    IF tok.k = "id" /\ tok.s \in DOMAIN REGISTER_MAP
    THEN Ok(REGISTER_MAP[tok.s])
    ELSE Raise("ValueError", FALSE)

(***************************************************************************)
(* parser.py: immediates and memory operands                               *)
(***************************************************************************)
\* the value as a radix-4096 pair; ParseError (without line) otherwise
parse_immediate(tok) ==
    IF tok.k = "num"
    THEN Ok(IF tok.neg THEN BigNeg([hi |-> tok.hi, lo |-> tok.lo])
            ELSE [hi |-> tok.hi, lo |-> tok.lo])
    ELSE Raise("ParseError", FALSE)

\* (offset, register name); ParseError (without line) otherwise
parse_memory_operand(tok) ==
    IF tok.k # "mem" THEN Raise("ParseError", FALSE)
    ELSE Then(IF tok.off = "empty" THEN Ok(BigOf(0))
              ELSE parse_immediate([k |-> tok.off, s |-> "", neg |-> tok.neg,
                                    hi |-> tok.hi, lo |-> tok.lo, off |-> ""]),
              LAMBDA offset :
                IF ~is_valid_register(tok.s) THEN Raise("ParseError", FALSE)
                ELSE Ok([offset |-> offset, reg |-> Id(tok.s)]))

(***************************************************************************)
(* instructions.py                                                         *)
(***************************************************************************)
\* Optional[int] = None
None == -1

Instruction(opcode, format, funct3, funct7) ==
    [opcode |-> opcode, format |-> format, funct3 |-> funct3, funct7 |-> funct7]

INSTRUCTIONS ==
    [m \in {"add", "sub", "sll", "slt", "sltu", "xor", "srl", "sra", "or", "and",
            "addi", "slti", "sltiu", "xori", "ori", "andi", "slli", "srli", "srai",
            "lb", "lh", "lw", "lbu", "lhu", "sb", "sh", "sw",
            "beq", "bne", "blt", "bge", "bltu", "bgeu",
            "jal", "jalr", "lui", "auipc", "ecall", "ebreak", "fence"} |->
      CASE m = "add"    -> Instruction(51, "R", 0, 0)
        [] m = "sub"    -> Instruction(51, "R", 0, 32)
        [] m = "sll"    -> Instruction(51, "R", 1, 0)
        [] m = "slt"    -> Instruction(51, "R", 2, 0)
        [] m = "sltu"   -> Instruction(51, "R", 3, 0)
        [] m = "xor"    -> Instruction(51, "R", 4, 0)
        [] m = "srl"    -> Instruction(51, "R", 5, 0)
        [] m = "sra"    -> Instruction(51, "R", 5, 32)
        [] m = "or"     -> Instruction(51, "R", 6, 0)
        [] m = "and"    -> Instruction(51, "R", 7, 0)
        [] m = "addi"   -> Instruction(19, "I", 0, None)
        [] m = "slti"   -> Instruction(19, "I", 2, None)
        [] m = "sltiu"  -> Instruction(19, "I", 3, None)
        [] m = "xori"   -> Instruction(19, "I", 4, None)
        [] m = "ori"    -> Instruction(19, "I", 6, None)
        [] m = "andi"   -> Instruction(19, "I", 7, None)
        [] m = "slli"   -> Instruction(19, "I", 1, 0)
        [] m = "srli"   -> Instruction(19, "I", 5, 0)
        [] m = "srai"   -> Instruction(19, "I", 5, 32)
        [] m = "lb"     -> Instruction(3, "I", 0, None)
        [] m = "lh"     -> Instruction(3, "I", 1, None)
        [] m = "lw"     -> Instruction(3, "I", 2, None)
        [] m = "lbu"    -> Instruction(3, "I", 4, None)
        [] m = "lhu"    -> Instruction(3, "I", 5, None)
        [] m = "sb"     -> Instruction(35, "S", 0, None)
        [] m = "sh"     -> Instruction(35, "S", 1, None)
        [] m = "sw"     -> Instruction(35, "S", 2, None)
        [] m = "beq"    -> Instruction(99, "B", 0, None)
        [] m = "bne"    -> Instruction(99, "B", 1, None)
        [] m = "blt"    -> Instruction(99, "B", 4, None)
        [] m = "bge"    -> Instruction(99, "B", 5, None)
        [] m = "bltu"   -> Instruction(99, "B", 6, None)
        [] m = "bgeu"   -> Instruction(99, "B", 7, None)
        [] m = "jal"    -> Instruction(111, "J", None, None)
        [] m = "jalr"   -> Instruction(103, "I", 0, None)
        [] m = "lui"    -> Instruction(55, "U", None, None)
        [] m = "auipc"  -> Instruction(23, "U", None, None)
        [] m = "ecall"  -> Instruction(115, "I", 0, None)
        [] m = "ebreak" -> Instruction(115, "I", 0, None)
        [] m = "fence"  -> Instruction(15, "I", 0, None)]

\* the two immediates exchanged
SYSTEM_IMM_exchanged == [m \in {"ecall", "ebreak"} |-> IF m = "ecall" THEN 1 ELSE 0]

SYSTEM_IMM == [m \in {"ecall", "ebreak"} |-> IF m = "ecall" THEN 0 ELSE 1]

\* True when the mnemonic names a catalog entry (get_instruction is not None)
is_valid_instruction(m) == m \in DOMAIN INSTRUCTIONS

(***************************************************************************)
(* encoder.py.  A word is the pair [hi, lo]: bits 31..12 and bits 11..0.   *)
(* x & (2^k - 1) is x % 2^k, x << k is x * 2^k, x >> k is x \div 2^k, and  *)
(* the | of fields that share no bit is their sum.                         *)
(***************************************************************************)
\* the upper limit taken one too large
check_immediate_range_inclusive(value, bits, signed) ==
    LET min_val == IF signed THEN 0 - 2^(bits - 1) ELSE 0
        max_val == IF signed THEN 2^(bits - 1) ELSE 2^bits
    IN  min_val <= value /\ value <= max_val

\* TRUE when check_immediate_range returns, FALSE when it raises
check_immediate_range(value, bits, signed) ==
    LET min_val == IF signed THEN 0 - 2^(bits - 1) ELSE 0
        max_val == IF signed THEN 2^(bits - 1) - 1 ELSE 2^bits - 1
    IN  min_val <= value /\ value <= max_val

\* funct7 left out of the word
encode_r_type_without_funct7(instr, rd, rs1, rs2) ==
    Ok([lo |-> (instr.opcode % 128) + (rd % 32) * 128,
        hi |-> (instr.funct3 % 8) + (rs1 % 32) * 8 + (rs2 % 32) * 256])

encode_r_type(instr, rd, rs1, rs2) ==
    Ok([lo |-> (instr.opcode % 128) + (rd % 32) * 128,
        hi |-> (instr.funct3 % 8) + (rs1 % 32) * 8 + (rs2 % 32) * 256
               + (instr.funct7 % 128) * 8192])

\* the shift test without srai
encode_i_type_srai_forgotten(instr, rd0, rs10, imm0, mnemonic) ==
    LET sys  == mnemonic \in DOMAIN SYSTEM_IMM
        imm1 == IF sys THEN SYSTEM_IMM[mnemonic] ELSE imm0
        rs1  == IF sys THEN 0 ELSE rs10
        rd   == IF sys THEN 0 ELSE rd0
        shift == instr.funct7 # None /\ mnemonic \in {"slli", "srli"}
        okay == IF shift THEN check_immediate_range(imm1, 5, FALSE)
                ELSE check_immediate_range(imm1, 12, TRUE)
        imm  == IF shift THEN instr.funct7 * 32 + (imm1 % 32)
                ELSE imm1 % 4096
    IN  IF ~okay THEN Raise("EncodingError", FALSE)
        ELSE Ok([lo |-> (instr.opcode % 128) + (rd % 32) * 128,
                 hi |-> (instr.funct3 % 8) + (rs1 % 32) * 8 + (imm % 4096) * 256])

encode_i_type(instr, rd0, rs10, imm0, mnemonic) ==
    LET sys  == mnemonic \in DOMAIN SYSTEM_IMM
        imm1 == IF sys THEN SYSTEM_IMM[mnemonic] ELSE imm0
        rs1  == IF sys THEN 0 ELSE rs10
        rd   == IF sys THEN 0 ELSE rd0
        shift == instr.funct7 # None /\ mnemonic \in {"slli", "srli", "srai"}
        okay == IF shift THEN check_immediate_range(imm1, 5, FALSE)
                ELSE check_immediate_range(imm1, 12, TRUE)
        imm  == IF shift THEN instr.funct7 * 32 + (imm1 % 32)
                ELSE imm1 % 4096
    IN  IF ~okay THEN Raise("EncodingError", FALSE)
        ELSE Ok([lo |-> (instr.opcode % 128) + (rd % 32) * 128,
                 hi |-> (instr.funct3 % 8) + (rs1 % 32) * 8 + (imm % 4096) * 256])

\* rs1 and rs2 in each other's field
encode_s_type_swapped(instr, rs1, rs2, imm0) ==
    LET imm == imm0 % 4096
    IN  IF ~check_immediate_range(imm0, 12, TRUE) THEN Raise("EncodingError", FALSE)
        ELSE Ok([lo |-> (instr.opcode % 128) + (imm % 32) * 128,
                 hi |-> (instr.funct3 % 8) + (rs2 % 32) * 8 + (rs1 % 32) * 256
                        + ((imm \div 32) % 128) * 8192])

encode_s_type(instr, rs1, rs2, imm0) ==
    LET imm == imm0 % 4096
    IN  IF ~check_immediate_range(imm0, 12, TRUE) THEN Raise("EncodingError", FALSE)
        ELSE Ok([lo |-> (instr.opcode % 128) + (imm % 32) * 128,
                 hi |-> (instr.funct3 % 8) + (rs1 % 32) * 8 + (rs2 % 32) * 256
                        + ((imm \div 32) % 128) * 8192])

\* without the alignment test
encode_b_type_unaligned(instr, rs1, rs2, imm0) ==
    LET imm == (imm0 % 8192) - (imm0 % 2)
    IN  IF ~check_immediate_range(imm0, 13, TRUE) THEN Raise("EncodingError", FALSE)
        ELSE Ok([lo |-> (instr.opcode % 128) + ((imm \div 2048) % 2) * 128
                        + ((imm \div 2) % 16) * 256,
                 hi |-> (instr.funct3 % 8) + (rs1 % 32) * 8 + (rs2 % 32) * 256
                        + ((imm \div 32) % 64) * 8192
                        + ((imm \div 4096) % 2) * 524288])

encode_b_type(instr, rs1, rs2, imm0) ==
    LET imm == (imm0 % 8192) - (imm0 % 2)
    IN  IF imm0 % 2 = 1 THEN Raise("EncodingError", FALSE)
        ELSE IF ~check_immediate_range(imm0, 13, TRUE) THEN Raise("EncodingError", FALSE)
        ELSE Ok([lo |-> (instr.opcode % 128) + ((imm \div 2048) % 2) * 128
                        + ((imm \div 2) % 16) * 256,
                 hi |-> (instr.funct3 % 8) + (rs1 % 32) * 8 + (rs2 % 32) * 256
                        + ((imm \div 32) % 64) * 8192
                        + ((imm \div 4096) % 2) * 524288])

\* without the mask of a negative immediate
encode_u_type_unmasked(instr, rd, imm0) ==
    LET okay == IF imm0 < 0 THEN check_immediate_range(imm0, 20, TRUE)
                ELSE check_immediate_range(imm0, 20, FALSE)
    IN  IF ~okay THEN Raise("EncodingError", FALSE)
        ELSE Ok([lo |-> (instr.opcode % 128) + (rd % 32) * 128,
                 hi |-> imm0])

\* the signed 20-bit range only
encode_u_type_signed_only(instr, rd, imm0) ==
    IF ~check_immediate_range(imm0, 20, TRUE) THEN Raise("EncodingError", FALSE)
    ELSE Ok([lo |-> (instr.opcode % 128) + (rd % 32) * 128,
             hi |-> imm0 % Pow20])

encode_u_type(instr, rd, imm0) ==
    LET okay == IF imm0 < 0 THEN check_immediate_range(imm0, 20, TRUE)
                ELSE check_immediate_range(imm0, 20, FALSE)
    IN  IF ~okay THEN Raise("EncodingError", FALSE)
        ELSE Ok([lo |-> (instr.opcode % 128) + (rd % 32) * 128,
                 hi |-> imm0 % Pow20])

\* imm[20:1] laid out in order in bits 31..12
encode_j_type_contiguous(instr, rd, imm0) ==
    IF imm0 % 2 = 1 THEN Raise("EncodingError", FALSE)
    ELSE IF ~check_immediate_range(imm0, 21, TRUE) THEN Raise("EncodingError", FALSE)
    ELSE Ok([lo |-> (instr.opcode % 128) + (rd % 32) * 128,
             hi |-> (imm0 \div 2) % Pow20])

encode_j_type(instr, rd, imm0) ==
    LET imm == IF imm0 < 0 THEN imm0 % 2097152 ELSE imm0
    IN  IF imm0 % 2 = 1 THEN Raise("EncodingError", FALSE)
        ELSE IF ~check_immediate_range(imm0, 21, TRUE) THEN Raise("EncodingError", FALSE)
        ELSE Ok([lo |-> (instr.opcode % 128) + (rd % 32) * 128,
                 hi |-> ((imm \div 4096) % 256) + ((imm \div 2048) % 2) * 256
                        + ((imm \div 2) % 1024) * 512
                        + ((imm \div 1048576) % 2) * 524288])

encode_instruction(instr, mnemonic, rd, rs1, rs2, imm) ==
    CASE instr.format = "R" -> encode_r_type(instr, rd, rs1, rs2)
      [] instr.format = "I" -> encode_i_type(instr, rd, rs1, imm, mnemonic)
      [] instr.format = "S" -> encode_s_type(instr, rs1, rs2, imm)
      [] instr.format = "B" -> encode_b_type(instr, rs1, rs2, imm)
      [] instr.format = "U" -> encode_u_type(instr, rd, imm)
      [] instr.format = "J" -> encode_j_type(instr, rd, imm)
      [] OTHER -> Raise("EncodingError", FALSE)


(***************************************************************************)
(* pseudo.py                                                               *)
(***************************************************************************)
BigAdd(a, b) ==
    [hi |-> a.hi + b.hi + ((a.lo + b.lo) \div Radix), lo |-> (a.lo + b.lo) % Radix]

BigLe(a, b) == a.hi < b.hi \/ (a.hi = b.hi /\ a.lo <= b.lo)

\* the 12-bit range taken as unsigned
FitsImm12_unsigned(imm) == BigLe(BigOf(0), imm) /\ BigLe(imm, BigOf(4095))

\* -2048 <= imm <= 2047
FitsImm12(imm) == BigLe(BigOf(-2048), imm) /\ BigLe(imm, BigOf(2047))

\* the upper part without the 0x800 rounding
li_upper_truncating(imm) == imm.hi

\* upper = (imm + 0x800) >> 12
li_upper(imm) == BigAdd(imm, BigOf(2048)).hi

\* lower = imm - (upper << 12)
li_lower(imm, upper) == ToInt([hi |-> imm.hi - upper, lo |-> imm.lo])

Real(mn, ops) == [mn |-> mn, ops |-> ops]

\* the addi ahead of the lui
li_pair_reversed(rd, upper, lower) ==
    IF lower # 0
    THEN Ok(<<Real("addi", <<rd, rd, Num(lower)>>),
              Real("lui", <<rd, Num(upper % Pow20)>>)>>)
    ELSE Ok(<<Real("lui", <<rd, Num(upper % Pow20)>>)>>)

\* the lui, and the addi unless lower is 0
li_pair(rd, upper, lower) ==
    IF lower # 0
    THEN Ok(<<Real("lui", <<rd, Num(upper % Pow20)>>),
              Real("addi", <<rd, rd, Num(lower)>>)>>)
    ELSE Ok(<<Real("lui", <<rd, Num(upper % Pow20)>>)>>)

expand_li(operands) ==
    IF Len(operands) # 2 THEN Raise("ParseError", FALSE)
    ELSE Then(parse_immediate(operands[2]),
              LAMBDA imm :
                IF FitsImm12(imm)
                THEN Ok(<<Real("addi", <<operands[1], Id("x0"), StrBig(imm)>>)>>)
                ELSE li_pair(operands[1], li_upper(imm), li_lower(imm, li_upper(imm))))

expand_mv(o) ==
    IF Len(o) # 2 THEN Raise("ParseError", FALSE)
    ELSE Ok(<<Real("addi", <<o[1], o[2], Num(0)>>)>>)

expand_not(o) ==
    IF Len(o) # 2 THEN Raise("ParseError", FALSE)
    ELSE Ok(<<Real("xori", <<o[1], o[2], Num(-1)>>)>>)

expand_neg(o) ==
    IF Len(o) # 2 THEN Raise("ParseError", FALSE)
    ELSE Ok(<<Real("sub", <<o[1], Id("x0"), o[2]>>)>>)

expand_nop(o) ==
    IF Len(o) # 0 THEN Raise("ParseError", FALSE)
    ELSE Ok(<<Real("addi", <<Id("x0"), Id("x0"), Num(0)>>)>>)

expand_j(o) ==
    IF Len(o) # 1 THEN Raise("ParseError", FALSE)
    ELSE Ok(<<Real("jal", <<Id("x0"), o[1]>>)>>)

expand_jr(o) ==
    IF Len(o) # 1 THEN Raise("ParseError", FALSE)
    ELSE Ok(<<Real("jalr", <<Id("x0"), o[1], Num(0)>>)>>)

expand_ret(o) ==
    IF Len(o) # 0 THEN Raise("ParseError", FALSE)
    ELSE Ok(<<Real("jalr", <<Id("x0"), Id("ra"), Num(0)>>)>>)

expand_call(o) ==
    IF Len(o) # 1 THEN Raise("ParseError", FALSE)
    ELSE Ok(<<Real("jal", <<Id("ra"), o[1]>>)>>)

expand_beqz(o) ==
    IF Len(o) # 2 THEN Raise("ParseError", FALSE)
    ELSE Ok(<<Real("beq", <<o[1], Id("x0"), o[2]>>)>>)

expand_bnez(o) ==
    IF Len(o) # 2 THEN Raise("ParseError", FALSE)
    ELSE Ok(<<Real("bne", <<o[1], Id("x0"), o[2]>>)>>)

expand_blez(o) ==
    IF Len(o) # 2 THEN Raise("ParseError", FALSE)
    ELSE Ok(<<Real("bge", <<Id("x0"), o[1], o[2]>>)>>)

expand_bgez(o) ==
    IF Len(o) # 2 THEN Raise("ParseError", FALSE)
    ELSE Ok(<<Real("bge", <<o[1], Id("x0"), o[2]>>)>>)

expand_bltz(o) ==
    IF Len(o) # 2 THEN Raise("ParseError", FALSE)
    ELSE Ok(<<Real("blt", <<o[1], Id("x0"), o[2]>>)>>)

expand_bgtz(o) ==
    IF Len(o) # 2 THEN Raise("ParseError", FALSE)
    ELSE Ok(<<Real("blt", <<Id("x0"), o[1], o[2]>>)>>)

expand_seqz(o) ==
    IF Len(o) # 2 THEN Raise("ParseError", FALSE)
    ELSE Ok(<<Real("sltiu", <<o[1], o[2], Num(1)>>)>>)

expand_snez(o) ==
    IF Len(o) # 2 THEN Raise("ParseError", FALSE)
    ELSE Ok(<<Real("sltu", <<o[1], Id("x0"), o[2]>>)>>)

expand_sltz(o) ==
    IF Len(o) # 2 THEN Raise("ParseError", FALSE)
    ELSE Ok(<<Real("slt", <<o[1], o[2], Id("x0")>>)>>)

expand_sgtz(o) ==
    IF Len(o) # 2 THEN Raise("ParseError", FALSE)
    ELSE Ok(<<Real("slt", <<o[1], Id("x0"), o[2]>>)>>)

PSEUDO_INSTRUCTIONS ==
    {"li", "mv", "not", "neg", "nop", "j", "jr", "ret", "call", "beqz", "bnez",
     "blez", "bgez", "bltz", "bgtz", "seqz", "snez", "sltz", "sgtz"}

is_pseudo_instruction(mnemonic) == mnemonic \in PSEUDO_INSTRUCTIONS

expand_pseudo(mnemonic, operands) ==
    CASE mnemonic = "li"   -> expand_li(operands)
      [] mnemonic = "mv"   -> expand_mv(operands)
      [] mnemonic = "not"  -> expand_not(operands)
      [] mnemonic = "neg"  -> expand_neg(operands)
      [] mnemonic = "nop"  -> expand_nop(operands)
      [] mnemonic = "j"    -> expand_j(operands)
      [] mnemonic = "jr"   -> expand_jr(operands)
      [] mnemonic = "ret"  -> expand_ret(operands)
      [] mnemonic = "call" -> expand_call(operands)
      [] mnemonic = "beqz" -> expand_beqz(operands)
      [] mnemonic = "bnez" -> expand_bnez(operands)
      [] mnemonic = "blez" -> expand_blez(operands)
      [] mnemonic = "bgez" -> expand_bgez(operands)
      [] mnemonic = "bltz" -> expand_bltz(operands)
      [] mnemonic = "bgtz" -> expand_bgtz(operands)
      [] mnemonic = "seqz" -> expand_seqz(operands)
      [] mnemonic = "snez" -> expand_snez(operands)
      [] mnemonic = "sltz" -> expand_sltz(operands)
      [] mnemonic = "sgtz" -> expand_sgtz(operands)
      [] OTHER -> Raise("ParseError", FALSE)

get_pseudo_instruction_count(mnemonic, operands) ==
    IF mnemonic \notin PSEUDO_INSTRUCTIONS THEN 1
    ELSE IF mnemonic = "li"
    THEN IF Len(operands) >= 2
         THEN LET imm == parse_immediate(operands[2])
              IN  IF ~imm.ok THEN 2
                  ELSE IF FitsImm12(imm.val) THEN 1 ELSE 2
         ELSE 2
    ELSE 1


(***************************************************************************)
(* parser.py: parse_line and Parser.parse_string                           *)
(***************************************************************************)
\* the characters the regular expression class \w accepts, of those the
\* model's label texts are made of
WordChars ==
    {"L", "M", "l", "o", "p", "0", "1", "2", "3", "4", "5", "6", "7", "8", "9"}

\* the mnemonic texts that begin with '.'
Directives == {".text", ".globl"}

RECURSIVE Join(_)
Join(cs) == IF cs = <<>> THEN "" ELSE Head(cs) \o Join(Tail(cs))

RECURSIVE TakeWord(_)
\* the longest prefix made of word characters
TakeWord(cs) ==
    IF cs # <<>> /\ Head(cs) \in WordChars
    THEN <<Head(cs)>> \o TakeWord(Tail(cs))
    ELSE <<>>

RECURSIVE UpToBlank(_)
UpToBlank(cs) ==
    IF cs # <<>> /\ Head(cs) # " " THEN <<Head(cs)>> \o UpToBlank(Tail(cs)) ELSE <<>>

RECURSIVE DropBlanks(_)
DropBlanks(cs) == IF cs # <<>> /\ Head(cs) = " " THEN DropBlanks(Tail(cs)) ELSE cs

\* the group (\.?\w+) of ^(\.?\w+)\s*:, <<>> when the text before ':' does
\* not match
LabelGroup(lab) ==
    LET dot  == lab # <<>> /\ Head(lab) = "."
        body == IF dot THEN Tail(lab) ELSE lab
        word == TakeWord(body)
        rest == SubSeq(body, Len(word) + 1, Len(body))
    IN  IF word # <<>> /\ DropBlanks(rest) = <<>>
        THEN (IF dot THEN <<".">> ELSE <<>>) \o word
        ELSE <<>>

DecimalDigits == <<"0", "1", "2", "3", "4", "5", "6", "7", "8", "9">>

RECURSIVE decimal(_)
\* the digits of qhi * Radix * 10 + low, low < 10 * Radix
decimal_of(qhi, low) ==
    (IF qhi = 0 /\ low < 10 THEN ""
     ELSE decimal([hi |-> qhi, lo |-> low \div 10]))
    \o DecimalDigits[(low % 10) + 1]

\* the decimal numeral of a non-negative int
decimal(b) == decimal_of(b.hi \div 10, (b.hi % 10) * Radix + b.lo)

\* an operand's text; a literal is written in decimal
TokText(tok) ==
    IF tok.k = "id" THEN tok.s
    ELSE IF tok.k = "num"
    THEN (IF tok.neg THEN "-" ELSE "") \o decimal([hi |-> tok.hi, lo |-> tok.lo])
    ELSE (IF tok.off = "num" THEN decimal([hi |-> tok.hi, lo |-> tok.lo]) ELSE "")
         \o "(" \o tok.s \o ")"

\* the operands found in the text  prefix mn op1, op2, ...  when that text
\* follows a mnemonic: the first operand runs up to the first comma
TextAsOperands(prefix, raw) ==
    IF raw.mn = "" THEN (IF prefix = "" THEN <<>> ELSE <<Id(prefix)>>)
    ELSE LET head == (IF prefix = "" THEN "" ELSE prefix \o " ") \o raw.mn
         IN  IF raw.ops = <<>> THEN <<Id(head)>>
             ELSE <<Id(head \o " " \o TokText(raw.ops[1]))>> \o Tail(raw.ops)

\* the text before the first "#" or "//"
strip_comments(line) == [line EXCEPT !.cmt = ""]

ParsedLine(line_num, label, mnemonic, operands, original, is_directive) ==
    [line_num |-> line_num, label |-> label, mnemonic |-> mnemonic,
     operands |-> operands, original |-> original, is_directive |-> is_directive]

\* the parse of a line that holds no comment; original is the line as read
parse_stripped(raw, original, line_num) ==
    LET group == LabelGroup(raw.lab)
    IN  IF raw.lab = <<>> \/ group # <<>>
        THEN \* no ':' on the line, or the label pattern matched
             IF raw.mn = ""
             THEN ParsedLine(line_num, Join(group), "", <<>>, original, FALSE)
             ELSE ParsedLine(line_num, Join(group), raw.mn, raw.ops, original,
                             raw.mn \in Directives)
        ELSE \* the pattern did not match: the whole line is the statement
             LET first  == UpToBlank(raw.lab)
                 after  == DropBlanks(SubSeq(raw.lab, Len(first) + 1, Len(raw.lab)))
                 whole  == Len(first) = Len(raw.lab)
                 mnem   == IF whole THEN Join(first) \o ":" ELSE Join(first)
                 opers  == IF whole THEN TextAsOperands("", raw)
                           ELSE TextAsOperands(Join(after) \o ":", raw)
             IN  ParsedLine(line_num, "", mnem, opers, original, Head(raw.lab) = ".")

\* label "" and mnemonic "" stand for None
parse_line(line, line_num) == parse_stripped(strip_comments(line), line, line_num)

parse_string(content) == [i \in 1..Len(content) |-> parse_line(content[i], i)]

(***************************************************************************)
(* assembler.py: operand resolution                                        *)
(***************************************************************************)
NoText == [lab |-> <<>>, mn |-> "<None>", ops |-> <<>>, cmt |-> ""]

NoError == [etype |-> "", line_num |-> None, line_text |-> NoText]

\* the exception as it leaves the run: with the line only when it was
\* constructed with line_num and line_text
Error(r, line) ==
    IF r.located
    THEN [etype |-> r.etype, line_num |-> line.line_num, line_text |-> line.original]
    ELSE [etype |-> r.etype, line_num |-> None, line_text |-> NoText]

InSymbols(tok, syms) == tok.k # "mem" /\ TokText(tok) \in DOMAIN syms

\* parse_immediate's outcome as _resolve_immediate passes it on
literal(r) == IF r.ok THEN Ok(ToInt(r.val)) ELSE Raise("ParseError", TRUE)

\* an unknown name read as 0
_resolve_immediate_lenient(value, syms) ==
    IF InSymbols(value, syms) THEN Ok(syms[TokText(value)])
    ELSE IF value.k = "num" THEN literal(parse_immediate(value))
    ELSE Ok(0)

_resolve_immediate(value, syms) ==
    IF InSymbols(value, syms) THEN Ok(syms[TokText(value)])
    ELSE literal(parse_immediate(value))

\* the label's absolute address as the offset
resolve_target_absolute(target, syms, current) ==
    IF InSymbols(target, syms) THEN Ok(syms[TokText(target)])
    ELSE _resolve_immediate(target, syms)

\* imm of a B-type or J-type target
resolve_target(target, syms, current) ==
    IF InSymbols(target, syms) THEN Ok(syms[TokText(target)] - current)
    ELSE _resolve_immediate(target, syms)

Fields(rd, rs1, rs2, imm) == [rd |-> rd, rs1 |-> rs1, rs2 |-> rs2, imm |-> imm]

\* rd, offset(rs1) and rs2, offset(rs1): the register, then the memory operand
parse_reg_mem(operands) ==
    Then(parse_register(operands[1]), LAMBDA r :
    Then(parse_memory_operand(operands[2]), LAMBDA m :
    Then(parse_register(m.reg), LAMBDA b :
    Ok([reg |-> r, base |-> b, imm |-> ToInt(m.offset)]))))

\* rd, rs1, imm
parse_reg_reg_imm(operands, syms) ==
    Then(parse_register(operands[1]), LAMBDA a :
    Then(parse_register(operands[2]), LAMBDA b :
    Then(_resolve_immediate(operands[3], syms), LAMBDA i :
    Ok(Fields(a, b, 0, i)))))

_parse_operands(instr, mnemonic, operands, syms, current) ==
    IF mnemonic \in {"ecall", "ebreak"} THEN Ok(Fields(0, 0, 0, 0))
    ELSE IF mnemonic = "fence" THEN Ok(Fields(0, 0, 0, 0))
    ELSE IF instr.format = "R"
    THEN IF Len(operands) # 3 THEN Raise("ParseError", TRUE)
         ELSE Then(parse_register(operands[1]), LAMBDA a :
              Then(parse_register(operands[2]), LAMBDA b :
              Then(parse_register(operands[3]), LAMBDA c :
              Ok(Fields(a, b, c, 0)))))
    ELSE IF instr.format = "I"
    THEN IF mnemonic \in {"lb", "lh", "lw", "lbu", "lhu"}
         THEN IF Len(operands) # 2 THEN Raise("ParseError", TRUE)
              ELSE Then(parse_reg_mem(operands), LAMBDA m :
                   Ok(Fields(m.reg, m.base, 0, m.imm)))
         ELSE IF mnemonic = "jalr"
         THEN IF Len(operands) = 3 THEN parse_reg_reg_imm(operands, syms)
              ELSE IF Len(operands) = 2
              THEN Then(parse_reg_mem(operands), LAMBDA m :
                   Ok(Fields(m.reg, m.base, 0, m.imm)))
              ELSE Raise("ParseError", TRUE)
         ELSE IF Len(operands) # 3 THEN Raise("ParseError", TRUE)
              ELSE parse_reg_reg_imm(operands, syms)
    ELSE IF instr.format = "S"
    THEN IF Len(operands) # 2 THEN Raise("ParseError", TRUE)
         ELSE Then(parse_reg_mem(operands), LAMBDA m :
              Ok(Fields(0, m.base, m.reg, m.imm)))
    ELSE IF instr.format = "B"
    THEN IF Len(operands) # 3 THEN Raise("ParseError", TRUE)
         ELSE Then(parse_register(operands[1]), LAMBDA a :
              Then(parse_register(operands[2]), LAMBDA b :
              Then(resolve_target(operands[3], syms, current), LAMBDA t :
              Ok(Fields(0, a, b, t)))))
    ELSE IF instr.format = "U"
    THEN IF Len(operands) # 2 THEN Raise("ParseError", TRUE)
         ELSE Then(parse_register(operands[1]), LAMBDA a :
              Then(_resolve_immediate(operands[2], syms), LAMBDA i :
              Ok(Fields(a, 0, 0, i))))
    ELSE IF instr.format = "J"
    THEN IF Len(operands) # 2 THEN Raise("ParseError", TRUE)
         ELSE Then(parse_register(operands[1]), LAMBDA a :
              Then(resolve_target(operands[2], syms, current), LAMBDA t :
              Ok(Fields(a, 0, 0, t))))
    ELSE Ok(Fields(0, 0, 0, 0))

\* what the `except (ValueError, EncodingError)` clause lets through
reraise(r) ==
    IF ~r.ok /\ r.etype \in {"ValueError", "EncodingError"}
    THEN Raise("EncodingError", TRUE)
    ELSE r

\* the outcome of one _encode_instruction: res is the word or the exception,
\* called tells whether encode_instruction was reached and fields what it got
Encoded(res, called, fields) == [res |-> res, called |-> called, fields |-> fields]

\* the body of the try block, given what _parse_operands returned
try_encode(instr, mnemonic, p) ==
    IF ~p.ok THEN Encoded(reraise(p), FALSE, Fields(0, 0, 0, 0))
    ELSE Encoded(reraise(encode_instruction(instr, mnemonic, p.val.rd, p.val.rs1,
                                            p.val.rs2, p.val.imm)),
                 TRUE, p.val)

_encode_instruction(mnemonic, operands, syms, current) ==
    IF ~is_valid_instruction(mnemonic)
    THEN Encoded(Raise("ParseError", TRUE), FALSE, Fields(0, 0, 0, 0))
    ELSE try_encode(INSTRUCTIONS[mnemonic], mnemonic,
                    _parse_operands(INSTRUCTIONS[mnemonic], mnemonic, operands,
                                    syms, current))

(***************************************************************************)
(* assembler.py: the two passes, one line at a time                        *)
(***************************************************************************)
\* _pass1's loop body without the duplicate check: a later definition rebinds
pass1_line_rebinding(line, syms, addr) ==
    LET bound == IF line.label # ""
                 THEN [n \in DOMAIN syms \cup {line.label} |->
                         IF n = line.label THEN addr ELSE syms[n]]
                 ELSE syms
        count == IF is_pseudo_instruction(line.mnemonic)
                 THEN get_pseudo_instruction_count(line.mnemonic, line.operands)
                 ELSE 1
    IN  IF line.mnemonic = "" \/ line.is_directive
        THEN [dup |-> FALSE, syms |-> bound, addr |-> addr]
        ELSE [dup |-> FALSE, syms |-> bound, addr |-> addr + count * 4]

\* _pass1's loop body with directives counted as instructions
pass1_line_counting_directives(line, syms, addr) ==
    LET dup   == line.label # "" /\ line.label \in DOMAIN syms
        bound == IF line.label # ""
                 THEN [n \in DOMAIN syms \cup {line.label} |->
                         IF n = line.label THEN addr ELSE syms[n]]
                 ELSE syms
        count == IF is_pseudo_instruction(line.mnemonic)
                 THEN get_pseudo_instruction_count(line.mnemonic, line.operands)
                 ELSE 1
    IN  IF dup THEN [dup |-> TRUE, syms |-> syms, addr |-> addr]
        ELSE IF line.mnemonic = ""
        THEN [dup |-> FALSE, syms |-> bound, addr |-> addr]
        ELSE [dup |-> FALSE, syms |-> bound, addr |-> addr + count * 4]

\* _pass1's loop body: dup when the line's label is already bound
pass1_line(line, syms, addr) ==
    LET dup   == line.label # "" /\ line.label \in DOMAIN syms
        bound == IF line.label # ""
                 THEN [n \in DOMAIN syms \cup {line.label} |->
                         IF n = line.label THEN addr ELSE syms[n]]
                 ELSE syms
        count == IF is_pseudo_instruction(line.mnemonic)
                 THEN get_pseudo_instruction_count(line.mnemonic, line.operands)
                 ELSE 1
    IN  IF dup THEN [dup |-> TRUE, syms |-> syms, addr |-> addr]
        ELSE IF line.mnemonic = "" \/ line.is_directive
        THEN [dup |-> FALSE, syms |-> bound, addr |-> addr]
        ELSE [dup |-> FALSE, syms |-> bound, addr |-> addr + count * 4]

\* one call of encode_instruction, as the log keeps it
Call(mn, ops, fields, index, line_num) ==
    [mn |-> mn, ops |-> ops, fields |-> fields, index |-> index,
     line_num |-> line_num]

\* the log after one _encode_instruction
logged(log, r, real, index, line_num) ==
    IF r.called THEN Append(log, Call(real.mn, real.ops, r.fields, index, line_num))
    ELSE log

RECURSIVE emit(_, _, _, _)
RECURSIVE emit_one(_, _, _, _, _)
\* _pass2's encode / append / advance, for each real instruction of a line;
\* st is [instructions, source_map, current_address, enc_log, err]
emit(reals, line, syms, st) ==
    IF reals = <<>> THEN st
    ELSE emit_one(_encode_instruction(Head(reals).mn, Head(reals).ops, syms,
                                      st.current_address),
                  reals, line, syms, st)

\* r is what _encode_instruction did with the first of reals
emit_one(r, reals, line, syms, st) ==
    IF ~r.res.ok
    THEN [st EXCEPT !.enc_log = logged(st.enc_log, r, Head(reals),
                                       Len(st.instructions), line.line_num),
                    !.err = Error(r.res, line)]
    ELSE emit(Tail(reals), line, syms,
              [instructions    |-> Append(st.instructions, r.res.val),
               source_map      |-> Append(st.source_map,
                                     [addr |-> st.current_address,
                                      original |-> line.original,
                                      line_num |-> line.line_num]),
               current_address |-> st.current_address + 4,
               enc_log         |-> logged(st.enc_log, r, Head(reals),
                                          Len(st.instructions), line.line_num),
               err             |-> st.err])

\* the line's real instructions encoded, or the expander's exception
emit_expanded(expanded, line, syms, st) ==
    IF ~expanded.ok THEN [st EXCEPT !.err = Error(expanded, line)]
    ELSE emit(expanded.val, line, syms, st)

\* _pass2's loop body with a skipped line padding the image's addresses
pass2_line_padded(line, syms, st) ==
    IF line.mnemonic = "" \/ line.is_directive
    THEN [st EXCEPT !.current_address = st.current_address + 4]
    ELSE emit_expanded(IF is_pseudo_instruction(line.mnemonic)
                       THEN expand_pseudo(line.mnemonic, line.operands)
                       ELSE Ok(<<Real(line.mnemonic, line.operands)>>),
                       line, syms, st)

\* _pass2's loop body
pass2_line(line, syms, st) ==
    IF line.mnemonic = "" \/ line.is_directive THEN st
    ELSE emit_expanded(IF is_pseudo_instruction(line.mnemonic)
                       THEN expand_pseudo(line.mnemonic, line.operands)
                       ELSE Ok(<<Real(line.mnemonic, line.operands)>>),
                       line, syms, st)

(***************************************************************************)
(* The sources the model assembles                                         *)
(***************************************************************************)
Line(lab, mn, ops) == [lab |-> lab, mn |-> mn, ops |-> ops, cmt |-> ""]

\* the line followed by a comment
Commented(line, marker) == [line EXCEPT !.cmt = marker]

LinePool ==
    { Line(<<>>, "", <<>>),
      Commented(Line(<<>>, "", <<>>), "#"),
      Commented(Line(<<>>, ".text", <<>>), "//"),
      Line(<<"L">>, "", <<>>),
      Line(<<"L">>, "nop", <<>>),
      Line(<<".", "M">>, "j", <<Id("L")>>),
      Line(<<>>, "beq", <<Id("x1"), Id("x2"), Id("L")>>),
      Line(<<>>, "bnez", <<Id("a0"), Id(".M")>>),
      Line(<<>>, "bne", <<Id("x1"), Id("x0"), Id("U")>>),
      Line(<<>>, "li", <<Id("x5"), Lit(FALSE, 1, 0)>>),
      Line(<<>>, "li", <<Id("x5"), Lit(FALSE, 74565, 1656)>>),
      Line(<<>>, "li", <<Id("x5")>>),
      Line(<<>>, "add", <<Id("x1"), Id("x2"), Id("foo")>>),
      Line(<<>>, "addi", <<Id("x1"), Id("x0"), Num(4096)>>),
      Line(<<>>, "lw", <<Id("x1"), Id("foo")>>),
      Line(<<>>, "sw", <<Id("x5"), Mem(Num(12), "sp")>>),
      Line(<<".", ".", "L">>, "nop", <<>>),
      Line(<<"L", "-", "M">>, "nop", <<>>),
      Line(<<"L", " ", "M">>, "", <<>>) }

Sources == UNION {[1..n -> LinePool] : n \in 0..MaxLines}

(***************************************************************************)
(* State machine                                                           *)
(***************************************************************************)
EmptySymbols == [n \in {} |-> 0]

\* the entry point of a call: output_path "" when none was given
StringEntry == [api |-> "assemble_string", output_path |-> ""]

FileEntry(output_path) == [api |-> "assemble_file", output_path |-> output_path]

\* no file at the output path
NoFile == <<"<no file>">>

\* the architecture harness is off
NoDocument == [stages |-> <<>>]

\* _trace_parser is None
NoTrace == [loaded |-> FALSE, cycles |-> <<>>]

\* no request is being handled
NoRequests == <<>>

\* the arguments of one encode_instruction call: d names the descriptor
EncCall(d, mn, rd, rs1, rs2, imm) ==
    [d |-> d, mn |-> mn, rd |-> rd, rs1 |-> rs1, rs2 |-> rs2, imm |-> imm]

NoCall == EncCall("addi", "addi", 0, 0, 0, 0)

\* Assembler.__init__; the harness is off
Init ==
    /\ source = <<>>
    /\ lines = <<>>
    /\ phase = "idle"
    /\ idx = 1
    /\ symbols = EmptySymbols
    /\ instructions = <<>>
    /\ source_map = <<>>
    /\ current_address = 0
    /\ pass1_pc = 0
    /\ err = NoError
    /\ enc_log = <<>>
    /\ history = <<>>
    /\ entry = StringEntry
    /\ out_file = NoFile
    /\ li_tok = Num(0)
    /\ li_stage = "off"
    /\ li_exp = Ok(<<>>)
    /\ li_rd = Ok(BigOf(0))
    /\ e_in = NoCall
    /\ e_stage = "off"
    /\ e_out = Ok(BigOf(0))
    /\ e_hex = <<>>
    /\ arch_in = NoDocument
    /\ arch_stage = "off"
    /\ arch_out = "accepted"
    /\ _architecture = "None"
    /\ _trace_parser = NoTrace
    /\ requests = NoRequests

\* how the call that just ended left the instance
Outcome ==
    [source |-> source, phase |-> phase, symbols |-> symbols,
     instructions |-> instructions, source_map |-> source_map, out_file |-> out_file]

\* a call of assemble_string or assemble_file on the instance, up to the
\* first line of _pass1: Parser.parse_string replaces the parsed lines and
\* _pass1 resets symbols and current_address
Assemble(src, api) ==
    /\ source' = src
    /\ lines' = parse_string(src)
    /\ entry' = api
    /\ history' = IF phase = "idle" THEN history ELSE Append(history, Outcome)
    /\ phase' = "pass1"
    /\ idx' = 1
    /\ symbols' = EmptySymbols
    /\ current_address' = 0
    /\ err' = NoError
    /\ enc_log' = <<>>
    /\ UNCHANGED <<instructions, source_map, pass1_pc, out_file>>
    /\ UNCHANGED harnessVars

\* assemble_string on a new instance
AssembleString ==
    /\ phase = "idle"
    /\ \E src \in Sources : Assemble(src, StringEntry)
    /\ UNCHANGED harnessVars

\* the effect of one iteration of _pass1's loop
Pass1Effect(r) ==
    IF r.dup
    THEN /\ err' = [etype |-> "SymbolError", line_num |-> lines[idx].line_num,
                    line_text |-> lines[idx].original]
         /\ phase' = "error"
         /\ UNCHANGED <<symbols, current_address, idx>>
    ELSE /\ symbols' = r.syms
         /\ current_address' = r.addr
         /\ idx' = idx + 1
         /\ UNCHANGED <<err, phase>>

\* one iteration of _pass1's loop
Pass1Line ==
    /\ phase = "pass1"
    /\ idx <= Len(lines)
    /\ Pass1Effect(pass1_line(lines[idx], symbols, current_address))
    /\ UNCHANGED <<source, lines, instructions, source_map, pass1_pc, enc_log,
                   history, entry, out_file>>
    /\ UNCHANGED harnessVars

\* the output file is opened for writing before _pass2 runs
Pass2Start_opening ==
    /\ phase = "pass1"
    /\ idx > Len(lines)
    /\ pass1_pc' = current_address
    /\ instructions' = <<>>
    /\ source_map' = <<>>
    /\ current_address' = 0
    /\ phase' = "pass2"
    /\ idx' = 1
    /\ out_file' = IF entry.output_path # "" THEN <<>> ELSE out_file
    /\ UNCHANGED <<source, lines, symbols, err, enc_log, history, entry>>
    /\ UNCHANGED harnessVars

\* _pass2 appends to the image the previous call left
Pass2Start_keeping ==
    /\ phase = "pass1"
    /\ idx > Len(lines)
    /\ pass1_pc' = current_address
    /\ current_address' = 0
    /\ phase' = "pass2"
    /\ idx' = 1
    /\ UNCHANGED <<source, lines, symbols, err, enc_log, history, entry, out_file,
                   instructions, source_map>>
    /\ UNCHANGED harnessVars

\* _pass1 returns and _pass2 resets the image
Pass2Start ==
    /\ phase = "pass1"
    /\ idx > Len(lines)
    /\ pass1_pc' = current_address
    /\ instructions' = <<>>
    /\ source_map' = <<>>
    /\ current_address' = 0
    /\ phase' = "pass2"
    /\ idx' = 1
    /\ UNCHANGED <<source, lines, symbols, err, enc_log, history, entry, out_file>>
    /\ UNCHANGED harnessVars

\* the effect of one iteration of _pass2's loop
Pass2Effect(st) ==
    /\ instructions' = st.instructions
    /\ source_map' = st.source_map
    /\ current_address' = st.current_address
    /\ enc_log' = st.enc_log
    /\ err' = st.err
    /\ phase' = IF st.err.etype # "" THEN "error" ELSE phase
    /\ idx' = IF st.err.etype # "" THEN idx ELSE idx + 1

\* one iteration of _pass2's loop
Pass2Line ==
    /\ phase = "pass2"
    /\ idx <= Len(lines)
    /\ Pass2Effect(pass2_line(lines[idx], symbols,
                              [instructions |-> instructions, source_map |-> source_map,
                               current_address |-> current_address,
                               enc_log |-> enc_log, err |-> err]))
    /\ UNCHANGED <<source, lines, symbols, pass1_pc, history, entry, out_file>>
    /\ UNCHANGED harnessVars

\* _pass2 returns; no output path was given and the call returns
\* self.instructions
AssembleReturn ==
    /\ phase = "pass2"
    /\ idx > Len(lines)
    /\ entry.output_path = ""
    /\ phase' = "done"
    /\ UNCHANGED <<source, lines, idx, symbols, instructions, source_map,
                   current_address, pass1_pc, err, enc_log, history, entry, out_file>>
    /\ UNCHANGED harnessVars

Next ==
    \/ AssembleString
    \/ Pass1Line
    \/ Pass2Start
    \/ Pass2Line
    \/ AssembleReturn

Spec == Init /\ [][Next]_vars


(***************************************************************************)
(* expand_li on its own: the literal of `li x5, <literal>` is drawn around *)
(* the values where the expansion changes shape, the expansion is encoded  *)
(* and the words are run on a reference RV32I interpreter.                 *)
(***************************************************************************)
Big(hi, lo) == [hi |-> hi, lo |-> lo]

\* 0, +-2^11, +-2^12, 0x12345678, 2^31 - 2^11, +-2^31, 2^32 - 2^11, 2^32
LiCorners ==
    { Big(0, 0), Big(0, 2048), Big(-1, 2048), Big(1, 0), Big(-1, 0),
      Big(74565, 1656), Big(524287, 2048), Big(524288, 0), Big(-524288, 0),
      Big(1048575, 2048), Big(1048576, 0) }

LiLiterals == {StrBig(BigAdd(c, BigOf(d))) : c \in LiCorners, d \in (0 - LiNear)..LiNear}

\* -2^31 <= k <= 2^32 - 1
InRange32(k) == BigLe(Big(-524288, 0), k) /\ BigLe(k, Big(1048575, 4095))

\* the value of the literal the harness holds
LiValue == parse_immediate(li_tok).val

\* sign extension of a 12-bit field
SignExtend12(f) == IF f >= 2048 THEN f - 4096 ELSE f

RECURSIVE Execute(_, _)
\* the reference interpreter on register x5: lui and addi, modulo 2^32
Execute(words, x5) ==
    IF words = <<>> THEN x5
    ELSE LET w      == Head(words)
             opcode == w.lo % 128
             rs1    == (w.hi \div 8) % 32
             src    == IF rs1 = 0 THEN Big(0, 0) ELSE x5
             sum    == BigAdd(src, BigOf(SignExtend12(w.hi \div 256)))
         IN  IF opcode = 55 THEN Execute(Tail(words), Big(w.hi, 0))
             ELSE Execute(Tail(words), Big(sum.hi % Pow20, sum.lo))

\* the words of the expansion, or the first error of the encoder
EncodeAll(reals) ==
    emit(reals, ParsedLine(1, "", "li", <<>>, NoText, FALSE), EmptySymbols,
         [instructions |-> <<>>, source_map |-> <<>>, current_address |-> 0,
          enc_log |-> <<>>, err |-> NoError])

\* x5 after the words ran, or the encoder's error
Ran(st) ==
    IF st.err.etype # "" THEN Raise(st.err.etype, TRUE)
    ELSE Ok(Execute(st.instructions, Big(0, 0)))

LiInit ==
    /\ source = <<>>
    /\ lines = <<>>
    /\ phase = "idle"
    /\ idx = 1
    /\ symbols = EmptySymbols
    /\ instructions = <<>>
    /\ source_map = <<>>
    /\ current_address = 0
    /\ pass1_pc = 0
    /\ err = NoError
    /\ enc_log = <<>>
    /\ history = <<>>
    /\ entry = StringEntry
    /\ out_file = NoFile
    /\ li_tok \in LiLiterals
    /\ li_stage = "input"
    /\ li_exp = Ok(<<>>)
    /\ li_rd = Ok(BigOf(0))
    /\ e_in = NoCall
    /\ e_stage = "off"
    /\ e_out = Ok(BigOf(0))
    /\ e_hex = <<>>
    /\ arch_in = NoDocument
    /\ arch_stage = "off"
    /\ arch_out = "accepted"
    /\ _architecture = "None"
    /\ _trace_parser = NoTrace
    /\ requests = NoRequests

LiExpand ==
    /\ li_stage = "input"
    /\ li_exp' = expand_li(<<Id("x5"), li_tok>>)
    /\ li_stage' = "expanded"
    /\ UNCHANGED <<li_tok, li_rd>>
    /\ UNCHANGED asmVars
    /\ UNCHANGED encVars
    /\ UNCHANGED archVars
    /\ UNCHANGED appVars

LiRun ==
    /\ li_stage = "expanded"
    /\ li_exp.ok
    /\ li_rd' = Ran(EncodeAll(li_exp.val))
    /\ li_stage' = "ran"
    /\ UNCHANGED <<li_tok, li_exp>>
    /\ UNCHANGED asmVars
    /\ UNCHANGED encVars
    /\ UNCHANGED archVars
    /\ UNCHANGED appVars

LiNext == LiExpand \/ LiRun

LiSpec == LiInit /\ [][LiNext]_vars

(***************************************************************************)
(* assembler.py: the hexadecimal rendering of the image.  A line of the    *)
(* output is the sequence of its characters.                               *)
(***************************************************************************)
HexChars == <<"0", "1", "2", "3", "4", "5", "6", "7",
              "8", "9", "a", "b", "c", "d", "e", "f">>

RECURSIVE hex(_)
\* format(n, "x") for n >= 0: no leading zeros
hex(n) ==
    IF n < 16 THEN <<HexChars[n + 1]>>
    ELSE Append(hex(n \div 16), HexChars[(n % 16) + 1])

RECURSIVE ZeroPad(_, _)
\* the fill of the format specification: zeros in front, up to the width
ZeroPad(ds, width) ==
    IF Len(ds) >= width THEN ds ELSE ZeroPad(<<"0">> \o ds, width)

\* the digits of hi * 4096 + lo for a pair that is not negative
hex_pair(w) == IF w.hi = 0 THEN hex(w.lo) ELSE hex(w.hi) \o ZeroPad(hex(w.lo), 3)

\* f"{instr:08x}": the sign counts in the width
format_08x(w) ==
    IF w.hi < 0 THEN <<"-">> \o ZeroPad(hex_pair(BigNeg(w)), 7)
    ELSE ZeroPad(hex_pair(w), 8)

\* the lines that "\n".join puts together
get_hex_string(instrs) == [k \in 1..Len(instrs) |-> format_08x(instrs[k])]

(***************************************************************************)
(* encode_instruction on its own: descriptor, mnemonic string, registers   *)
(* and immediate are drawn around the boundaries of the encoder's checks,  *)
(* the call is made and the word is rendered.                              *)
(***************************************************************************)
\* how far around each boundary value the immediates are drawn
ImmNear == 2

\* 0, 2^5, 2^11, 2^12, 2^19, 2^20 and their negatives, 0x12345000, and
\* alternating bit patterns (0x554, -0xAAA, 0x55554, -0xAAAAA)
ImmCorners ==
    { 0, 32, 2048, -2048, 4096, -4096, 2^19, 0 - 2^19, 2^20, 0 - 2^20,
      74565 * 4096, 1364, -2730, 349524, -699050 }

Immediates == {c + d : c \in ImmCorners, d \in (0 - ImmNear)..ImmNear}

\* every register number appears in every position
RegisterTriples == {<<r, (7 * r + 3) % 32, (11 * r + 5) % 32>> : r \in 0..31}

\* the catalog's own calls, and calls whose mnemonic string is not the
\* descriptor's name ("" is None)
Mnemonics ==
    {<<m, m>> : m \in DOMAIN INSTRUCTIONS}
    \cup {<<d, s>> : d \in {"addi", "slli", "ecall"},
                     s \in {"", "ecall", "ebreak", "srai", "addi"}}

EncInit ==
    /\ source = <<>>
    /\ lines = <<>>
    /\ phase = "idle"
    /\ idx = 1
    /\ symbols = EmptySymbols
    /\ instructions = <<>>
    /\ source_map = <<>>
    /\ current_address = 0
    /\ pass1_pc = 0
    /\ err = NoError
    /\ enc_log = <<>>
    /\ history = <<>>
    /\ entry = StringEntry
    /\ out_file = NoFile
    /\ li_tok = Num(0)
    /\ li_stage = "off"
    /\ li_exp = Ok(<<>>)
    /\ li_rd = Ok(BigOf(0))
    /\ \E m \in Mnemonics, r \in RegisterTriples, i \in Immediates :
         e_in = EncCall(m[1], m[2], r[1], r[2], r[3], i)
    /\ e_stage = "input"
    /\ e_out = Ok(BigOf(0))
    /\ e_hex = <<>>
    /\ arch_in = NoDocument
    /\ arch_stage = "off"
    /\ arch_out = "accepted"
    /\ _architecture = "None"
    /\ _trace_parser = NoTrace
    /\ requests = NoRequests

EncEncode ==
    /\ e_stage = "input"
    /\ e_out' = encode_instruction(INSTRUCTIONS[e_in.d], e_in.mn, e_in.rd,
                                   e_in.rs1, e_in.rs2, e_in.imm)
    /\ e_stage' = "encoded"
    /\ UNCHANGED <<e_in, e_hex>>
    /\ UNCHANGED asmVars
    /\ UNCHANGED liVars
    /\ UNCHANGED archVars
    /\ UNCHANGED appVars

EncRender ==
    /\ e_stage = "encoded"
    /\ e_out.ok
    /\ e_hex' = get_hex_string(<<e_out.val>>)
    /\ e_stage' = "rendered"
    /\ UNCHANGED <<e_in, e_out>>
    /\ UNCHANGED asmVars
    /\ UNCHANGED liVars
    /\ UNCHANGED archVars
    /\ UNCHANGED appVars

EncNext == EncEncode \/ EncRender

EncSpec == EncInit /\ [][EncNext]_vars

(***************************************************************************)
(* One Assembler instance used for several calls, by either entry point    *)
(***************************************************************************)
\* the calls made on one instance
MaxRuns == 3

Last(s) == s[Len(s)]

Nop == Line(<<>>, "nop", <<>>)

LiWide == Line(<<>>, "li", <<Id("x5"), Lit(FALSE, 74565, 1656)>>)

\* every way of using a label as an operand
LabelUses ==
    << Nop,
       Line(<<"L">>, "beq", <<Id("x1"), Id("x2"), Id("L")>>),
       Line(<<>>, "jal", <<Id("x1"), Id("L")>>),
       Line(<<>>, "addi", <<Id("x1"), Id("x0"), Id("L")>>),
       Line(<<>>, "jalr", <<Id("x1"), Id("x2"), Id("L")>>),
       Line(<<>>, "lui", <<Id("x1"), Id("L")>>) >>

\* a label whose text is a numeral
NumeralLabel ==
    << Line(<<"4">>, "nop", <<>>),
       Line(<<"L">>, "addi", <<Id("x1"), Id("x0"), Id("L")>>) >>

\* Pass 1 raises on line 3
DuplicateLabel == << Nop, Line(<<"L">>, "", <<>>), Line(<<"L">>, "nop", <<>>) >>

\* Pass 2 raises on line 3, after three words
OutOfRange == << LiWide, Nop, Line(<<>>, "addi", <<Id("x1"), Id("x0"), Num(4096)>>) >>

\* Pass 2 raises on line 2 before line 2 emits anything
BadExpansion == << Nop, Line(<<>>, "li", <<Id("xx"), Lit(FALSE, 74565, 1656)>>) >>

ReuseSources == {LabelUses, NumeralLabel, DuplicateLabel, OutOfRange, BadExpansion}

\* 512 words, then the label 1656 at address 2048, then a two-word li whose
\* lower half is written 1656
LongSource ==
    [i \in 1..514 |->
        IF i <= 512 THEN Nop
        ELSE IF i = 513 THEN Line(<<"1", "6", "5", "6">>, "nop", <<>>)
        ELSE LiWide]

\* the operand index at which mnemonic mn takes an immediate that may be a
\* label, 0 when it has none
LabelOperand(mn, operands) ==
    IF ~is_valid_instruction(mn) THEN 0
    ELSE IF INSTRUCTIONS[mn].format = "B" THEN 3
    ELSE IF INSTRUCTIONS[mn].format \in {"J", "U"} THEN 2
    ELSE IF INSTRUCTIONS[mn].format = "I" /\ INSTRUCTIONS[mn].opcode # 3
            /\ mn \notin {"ecall", "ebreak", "fence"} /\ Len(operands) = 3
    THEN 3
    ELSE 0

\* the literal that stands for the label tok used on a line at address pc
LiteralFor(mn, tok, syms, pc) ==
    IF INSTRUCTIONS[mn].format \in {"B", "J"}
    THEN Num(syms[tok.s] - pc)
    ELSE Num(syms[tok.s])

\* the address of the first word of line i
UseSitePc(i, smap) ==
    smap[CHOOSE k \in 1..Len(smap) :
            /\ smap[k].line_num = i
            /\ \A j \in 1..(k - 1) : smap[j].line_num # i].addr

\* line i of src with its label operand written as a literal
ReplacedLine(raw, i, syms, smap) ==
    LET p == LabelOperand(raw.mn, raw.ops)
    IN  IF p = 0 \/ p > Len(raw.ops) THEN raw
        ELSE IF raw.ops[p].k = "id" /\ raw.ops[p].s \in DOMAIN syms
        THEN [raw EXCEPT !.ops[p] = LiteralFor(raw.mn, raw.ops[p], syms,
                                               UseSitePc(i, smap))]
        ELSE raw

\* src with every label use written as a literal
Replaced(src, syms, smap) ==
    [i \in 1..Len(src) |-> ReplacedLine(src[i], i, syms, smap)]

\* write_hex: the file is opened for writing and holds one line per word
write_hex_dropping(instrs) ==
    [k \in 1..(Len(instrs) - 1) |-> Append(format_08x(instrs[k + 1]), "\n")]

write_hex(instrs) == [k \in 1..Len(instrs) |-> Append(format_08x(instrs[k]), "\n")]

\* the calls made on the instance, the current one included
Calls == Len(history) + (IF phase = "idle" THEN 0 ELSE 1)

\* no call is running and another may be made
Callable == phase \in {"idle", "done", "error"} /\ Calls < MaxRuns

ReuseString ==
    /\ Callable
    /\ \E src \in ReuseSources : Assemble(src, StringEntry)

ReuseFile ==
    /\ Callable
    /\ \E src \in ReuseSources : Assemble(src, FileEntry("out.hex"))

\* assemble_file on an input path that cannot be opened: Parser.parse_file
\* raises before anything of the instance is touched
ReuseMissingFile ==
    /\ Callable
    /\ source' = <<>>
    /\ entry' = FileEntry("out.hex")
    /\ history' = IF phase = "idle" THEN history ELSE Append(history, Outcome)
    /\ err' = [etype |-> "FileNotFoundError", line_num |-> None, line_text |-> NoText]
    /\ phase' = "error"
    /\ UNCHANGED <<lines, idx, symbols, instructions, source_map, current_address,
                   pass1_pc, enc_log, out_file>>
    /\ UNCHANGED harnessVars

\* the source just assembled is assembled again with its label uses
\* written as literals
ReuseReplaced ==
    /\ Callable
    /\ phase = "done"
    /\ Assemble(Replaced(source, symbols, source_map), StringEntry)

\* the first call on the instance assembles the long source
ReuseLong ==
    /\ phase = "idle"
    /\ Assemble(LongSource, StringEntry)

\* _pass2 returned and the output path is given: write_hex, then the call
\* returns self.instructions
WriteHex ==
    /\ phase = "pass2"
    /\ idx > Len(lines)
    /\ entry.output_path # ""
    /\ out_file' = write_hex(instructions)
    /\ phase' = "done"
    /\ UNCHANGED <<source, lines, idx, symbols, instructions, source_map,
                   current_address, pass1_pc, err, enc_log, history, entry>>
    /\ UNCHANGED harnessVars

ReuseNext ==
    \/ ReuseString
    \/ ReuseFile
    \/ ReuseMissingFile
    \/ ReuseReplaced
    \/ ReuseLong
    \/ Pass1Line
    \/ Pass2Start
    \/ Pass2Line
    \/ AssembleReturn
    \/ WriteHex

ReuseSpec == Init /\ [][ReuseNext]_vars

(***************************************************************************)
(* Sources assembled on their own: the two operand forms of jalr, the      *)
(* system and fence instructions with operands, the spec's scenarios       *)
(***************************************************************************)
JalrImms == {-2048, -4, 0, 4, 2047, 2048}

\* jalr rd, rs1, imm  then  jalr rd, imm(rs1); lab is the text before a ':'
\* on the first line
JalrForms(lab, rd, rs1, imm) ==
    << Line(lab, "jalr", <<Id(rd), Id(rs1), Num(imm)>>),
       Line(<<>>, "jalr", <<Id(rd), Mem(Num(imm), rs1)>>) >>

JalrSources ==
    { JalrForms(lab, XRegs[t[1] + 1], REG_ABI_NAMES[t[2] + 1], imm) :
        t \in RegisterTriples, imm \in JalrImms, lab \in {<<>>, <<"4">>} }

\* jr rs, ret and the jalr lines they stand for
JrSources ==
    { << Line(<<>>, "jr", <<Id(XRegs[r + 1])>>),
         Line(<<>>, "jalr", <<Id("x0"), Id(XRegs[r + 1]), Num(0)>>),
         Line(<<>>, "ret", <<>>),
         Line(<<>>, "jalr", <<Id("x0"), Id("ra"), Num(0)>>) >> : r \in 0..31 }

\* operand texts after a mnemonic that takes none
OperandTexts ==
    { <<>>, <<Id("x1")>>, <<Id("foo"), Num(99)>>, <<Mem(Num(4), "sp")>>,
      <<Id("iorw"), Id("iorw")>>, <<Id("x1"), Id("x2"), Id("x3"), Num(4096)>>,
      <<Lit(TRUE, 74565, 1656)>>, <<Mem(EmptyOff, "L")>> }

SystemSources ==
    { <<Commented(Line(lab, mn, ops), cmt)>> :
        mn \in {"ecall", "ebreak", "fence"}, ops \in OperandTexts,
        lab \in {<<>>, <<"L">>}, cmt \in {"", "#"} }

\* the spec's scenarios: the source and the lines of its hex text
Scenarios ==
    << [src |-> <<Line(<<>>, "addi", <<Id("x1"), Id("x0"), Num(10)>>)>>,
        hex |-> << <<"0", "0", "a", "0", "0", "0", "9", "3">> >>],
       [src |-> <<Line(<<>>, "sub", <<Id("x3"), Id("x1"), Id("x2")>>)>>,
        hex |-> << <<"4", "0", "2", "0", "8", "1", "b", "3">> >>],
       [src |-> <<Line(<<>>, "lw", <<Id("x5"), Mem(Num(8), "x2")>>)>>,
        hex |-> << <<"0", "0", "8", "1", "2", "2", "8", "3">> >>],
       [src |-> <<Line(<<>>, "sw", <<Id("x5"), Mem(Num(12), "x2")>>)>>,
        hex |-> << <<"0", "0", "5", "1", "2", "6", "2", "3">> >>],
       [src |-> <<Line(<<"l", "o", "o", "p">>, "beq",
                       <<Id("x1"), Id("x2"), Id("loop")>>)>>,
        hex |-> << <<"0", "0", "2", "0", "8", "0", "6", "3">> >>],
       [src |-> <<Line(<<>>, "jal", <<Id("x1"), Num(8)>>)>>,
        hex |-> << <<"0", "0", "8", "0", "0", "0", "e", "f">> >>],
       [src |-> <<Line(<<>>, "jal", <<Id("x0"), Num(-4)>>)>>,
        hex |-> << <<"f", "f", "d", "f", "f", "0", "6", "f">> >>],
       [src |-> <<Line(<<>>, "li", <<Id("x10"), Lit(FALSE, 74565, 1656)>>)>>,
        hex |-> << <<"1", "2", "3", "4", "5", "5", "3", "7">>,
                   <<"6", "7", "8", "5", "0", "5", "1", "3">> >>] >>

ScenarioSources ==
    JalrSources \cup JrSources \cup SystemSources
        \cup {Scenarios[k].src : k \in 1..Len(Scenarios)}

\* assemble_string on a new instance
ScenarioAssemble ==
    /\ phase = "idle"
    /\ \E src \in ScenarioSources : Assemble(src, StringEntry)

ScenarioNext ==
    \/ ScenarioAssemble
    \/ Pass1Line
    \/ Pass2Start
    \/ Pass2Line
    \/ AssembleReturn

ScenarioSpec == Init /\ [][ScenarioNext]_vars

(***************************************************************************)
(* sim/visualizer/architecture_parser.py: parse_architecture.  The YAML    *)
(* document is held as loaded: a value is a string or a list, and a key    *)
(* that may be missing has a value that says so.                           *)
(***************************************************************************)
\* the stages of an architecture
MaxStages == 2

Str(s) == [kind |-> "str", text |-> s]

\* the one-element list [s]
List(s) == [kind |-> "list", text |-> s]

ArchitectureError == Raise("ArchitectureError", FALSE)

\* x in stage_ids: hashing a list raises TypeError
member(x, stage_ids) ==
    IF x.kind = "list" THEN Raise("TypeError", FALSE) ELSE Ok(x \in stage_ids)

\* every stage of the model has its name and a one-character letter
_validate_stage(stage, stage_ids) ==
    Then(member(stage.id, stage_ids), LAMBDA dup :
         IF dup THEN ArchitectureError ELSE Ok(stage_ids \cup {stage.id}))

RECURSIVE validate_stages(_, _)
\* the loop over arch['stages']
validate_stages(stages, stage_ids) ==
    IF stages = <<>> THEN Ok(stage_ids)
    ELSE Then(_validate_stage(Head(stages), stage_ids), LAMBDA ids :
              validate_stages(Tail(stages), ids))

\* a reference to a stage: a hazard signal's stage, a path's target_stage,
\* a source's stage
defined(ref, stage_ids) ==
    Then(member(ref, stage_ids), LAMBDA found :
         IF found THEN Ok(stage_ids) ELSE ArchitectureError)

RECURSIVE validate_signals(_, _)
\* the loop over one list of hazard signals; every signal has its key
validate_signals(signals, stage_ids) ==
    IF signals = <<>> THEN Ok(stage_ids)
    ELSE Then(defined(Head(signals).stage, stage_ids), LAMBDA ids :
              validate_signals(Tail(signals), ids))

_validate_hazards(hazards, stage_ids) ==
    Then(validate_signals(hazards.stall_signals, stage_ids), LAMBDA ids :
         validate_signals(hazards.flush_signals, ids))

RECURSIVE validate_sources(_, _)
\* the loop over path['sources']; every source has its value
validate_sources(sources, stage_ids) ==
    IF sources = <<>> THEN Ok(stage_ids)
    ELSE Then(defined(Head(sources).stage, stage_ids), LAMBDA ids :
              validate_sources(Tail(sources), ids))

RECURSIVE validate_paths(_, _)
\* the loop over forwarding['paths']; every path has its key
validate_paths(paths, stage_ids) ==
    IF paths = <<>> THEN Ok(stage_ids)
    ELSE Then(defined(Head(paths).target_stage, stage_ids), LAMBDA ids :
         Then(validate_sources(Head(paths).sources, ids), LAMBDA ids2 :
              validate_paths(Tail(paths), ids2)))

\* enabled is "absent", "true", "false" or "zero" (the integer 0, which is
\* not the object False)
_validate_forwarding(forwarding, stage_ids) ==
    IF forwarding.enabled = "false" THEN Ok(stage_ids)
    ELSE validate_paths(forwarding.paths, stage_ids)

_validate_architecture(arch) ==
    IF ~arch.named THEN ArchitectureError
    ELSE IF arch.stages = <<>> THEN ArchitectureError
    ELSE Then(validate_stages(arch.stages, {}), LAMBDA ids :
         Then(IF arch.hazards.present THEN _validate_hazards(arch.hazards, ids)
              ELSE Ok(ids), LAMBDA ids2 :
              IF arch.forwarding.present
              THEN _validate_forwarding(arch.forwarding, ids2)
              ELSE Ok(ids2)))

\* how the call ends: "accepted" or the type of the exception
parse_architecture(doc) ==
    IF ~doc.mapping THEN "ArchitectureError"
    ELSE IF _validate_architecture(doc).ok THEN "accepted"
    ELSE _validate_architecture(doc).etype

StageRefs == {Str("if"), Str("ex"), List("if")}

UpTo(S, n) == UNION {[1..k -> S] : k \in 0..n}

Hazards ==
    {[present |-> FALSE, stall_signals |-> <<>>, flush_signals |-> <<>>]}
    \cup [present : {TRUE},
          stall_signals : UpTo([stage : StageRefs], 1),
          flush_signals : UpTo([stage : StageRefs], 1)]

Forwardings ==
    {[present |-> FALSE, enabled |-> "absent", paths |-> <<>>]}
    \cup [present : {TRUE},
          enabled : {"absent", "true", "false", "zero"},
          paths : UpTo([target_stage : StageRefs,
                        sources : UpTo([stage : StageRefs], 1)], 1)]

Architectures ==
    [mapping : {TRUE}, named : BOOLEAN, stages : UpTo([id : StageRefs], MaxStages),
     hazards : Hazards, forwarding : Forwardings]
    \cup {[mapping |-> FALSE, named |-> FALSE, stages |-> <<>>,
           hazards |-> CHOOSE h \in Hazards : ~h.present,
           forwarding |-> CHOOSE f \in Forwardings : ~f.present]}

ArchInit ==
    /\ source = <<>>
    /\ lines = <<>>
    /\ phase = "idle"
    /\ idx = 1
    /\ symbols = EmptySymbols
    /\ instructions = <<>>
    /\ source_map = <<>>
    /\ current_address = 0
    /\ pass1_pc = 0
    /\ err = NoError
    /\ enc_log = <<>>
    /\ history = <<>>
    /\ entry = StringEntry
    /\ out_file = NoFile
    /\ li_tok = Num(0)
    /\ li_stage = "off"
    /\ li_exp = Ok(<<>>)
    /\ li_rd = Ok(BigOf(0))
    /\ e_in = NoCall
    /\ e_stage = "off"
    /\ e_out = Ok(BigOf(0))
    /\ e_hex = <<>>
    /\ arch_in \in Architectures
    /\ arch_stage = "input"
    /\ arch_out = "accepted"
    /\ _architecture = "None"
    /\ _trace_parser = NoTrace
    /\ requests = NoRequests

ArchParse ==
    /\ arch_stage = "input"
    /\ arch_out' = parse_architecture(arch_in)
    /\ arch_stage' = "parsed"
    /\ UNCHANGED arch_in
    /\ UNCHANGED asmVars
    /\ UNCHANGED liVars
    /\ UNCHANGED encVars
    /\ UNCHANGED appVars

ArchNext == ArchParse

ArchSpec == ArchInit /\ [][ArchNext]_vars

(***************************************************************************)
(* sim/visualizer/app.py: POST /api/architecture and POST /api/load.  The  *)
(* server handles requests in threads; a handler runs statement by         *)
(* statement and another handler may run between two of its statements.    *)
(* An architecture is known by its name; a trace is the sequence of its    *)
(* cycles, a cycle being the set of architectures it validates against.    *)
(***************************************************************************)
\* the requests the server receives
MaxRequests == 3

\* the handlers that may run at the same time
Handlers == {1, 2}

ArchitectureNames == {"five_stage", "three_stage"}

\* what an upload to /api/architecture holds: a valid architecture, a file
\* parse_architecture rejects, or no file field
ArchitectureUploads == ArchitectureNames \cup {"invalid", "no file"}

Trace(ok, cycles) == [ok |-> ok, cycles |-> cycles]

\* a file TraceParser cannot read
UnreadableTrace == Trace(FALSE, <<>>)

\* what an upload to /api/load holds
TraceUploads ==
    { Trace(TRUE, <<>>),
      Trace(TRUE, <<{"five_stage"}>>),
      Trace(TRUE, <<{"three_stage"}>>),
      Trace(TRUE, <<{"five_stage"}, {"three_stage"}>>),
      UnreadableTrace }

\* the value of a handler that is not running
Free ==
    [kind |-> "free", pc |-> "", arch |-> "", trace |-> UnreadableTrace,
     checked |-> 0, validation_errors |-> FALSE]

AppInit ==
    /\ source = <<>>
    /\ lines = <<>>
    /\ phase = "idle"
    /\ idx = 1
    /\ symbols = EmptySymbols
    /\ instructions = <<>>
    /\ source_map = <<>>
    /\ current_address = 0
    /\ pass1_pc = 0
    /\ err = NoError
    /\ enc_log = <<>>
    /\ history = <<>>
    /\ entry = StringEntry
    /\ out_file = NoFile
    /\ li_tok = Num(0)
    /\ li_stage = "off"
    /\ li_exp = Ok(<<>>)
    /\ li_rd = Ok(BigOf(0))
    /\ e_in = NoCall
    /\ e_stage = "off"
    /\ e_out = Ok(BigOf(0))
    /\ e_hex = <<>>
    /\ arch_in = NoDocument
    /\ arch_stage = "off"
    /\ arch_out = "accepted"
    /\ _architecture = "None"
    /\ _trace_parser = NoTrace
    /\ requests = [received |-> 0, handler |-> [h \in Handlers |-> Free]]

\* handler h is left in state r
Handler(h, r) == requests' = [requests EXCEPT !.handler[h] = r]

AppFrame ==
    /\ UNCHANGED asmVars
    /\ UNCHANGED liVars
    /\ UNCHANGED encVars
    /\ UNCHANGED archVars

\* the requests once free handler h has taken a new one
Receive(h, kind, pc, arch, trace) ==
    [received |-> requests.received + 1,
     handler |-> [requests.handler EXCEPT ![h] =
         [kind |-> kind, pc |-> pc, arch |-> arch, trace |-> trace,
          checked |-> 0, validation_errors |-> FALSE]]]

\* a POST /api/architecture request arrives
PostArchitecture ==
    \E h \in Handlers, upload \in ArchitectureUploads :
        /\ requests.received < MaxRequests
        /\ requests.handler[h].kind = "free"
        /\ requests' = Receive(h, "architecture", "parse", upload, UnreadableTrace)
        /\ UNCHANGED <<_architecture, _trace_parser>>
        /\ AppFrame

\* a POST /api/load request arrives
PostLoad ==
    \E h \in Handlers, upload \in TraceUploads :
        /\ requests.received < MaxRequests
        /\ requests.handler[h].kind = "free"
        /\ requests' = Receive(h, "load", "check", "", upload)
        /\ UNCHANGED <<_architecture, _trace_parser>>
        /\ AppFrame

\* load_architecture: require_file_upload, parse_architecture and the
\* assignment to _architecture; a failure answers 400
ArchitectureParse ==
    \E h \in Handlers :
        /\ requests.handler[h].kind = "architecture"
        /\ requests.handler[h].pc = "parse"
        /\ IF requests.handler[h].arch \in ArchitectureNames
           THEN /\ _architecture' = requests.handler[h].arch
                /\ Handler(h, [requests.handler[h] EXCEPT !.pc = "clear"])
           ELSE /\ Handler(h, Free)
                /\ UNCHANGED _architecture
        /\ UNCHANGED _trace_parser
        /\ AppFrame

\* load_architecture: _trace_parser = None, and the answer
ArchitectureClear ==
    \E h \in Handlers :
        /\ requests.handler[h].kind = "architecture"
        /\ requests.handler[h].pc = "clear"
        /\ _trace_parser' = NoTrace
        /\ Handler(h, Free)
        /\ UNCHANGED _architecture
        /\ AppFrame

\* load_trace: the test of _architecture is None
LoadCheck ==
    \E h \in Handlers :
        /\ requests.handler[h].kind = "load"
        /\ requests.handler[h].pc = "check"
        /\ Handler(h, IF _architecture = "None" THEN Free
                      ELSE [requests.handler[h] EXCEPT !.pc = "parse"])
        /\ UNCHANGED <<_architecture, _trace_parser>>
        /\ AppFrame

\* load_trace: the file is saved and TraceParser reads it
LoadParse ==
    \E h \in Handlers :
        /\ requests.handler[h].kind = "load"
        /\ requests.handler[h].pc = "parse"
        /\ Handler(h, IF requests.handler[h].trace.ok
                      THEN [requests.handler[h] EXCEPT !.pc = "validate"]
                      ELSE Free)
        /\ UNCHANGED <<_architecture, _trace_parser>>
        /\ AppFrame

\* load_trace: one iteration of the validation loop, which reads the global
\* _architecture
LoadValidate ==
    \E h \in Handlers :
        /\ requests.handler[h].kind = "load"
        /\ requests.handler[h].pc = "validate"
        /\ requests.handler[h].checked < Len(requests.handler[h].trace.cycles)
        /\ Handler(h, [requests.handler[h] EXCEPT
                 !.checked = @ + 1,
                 !.validation_errors =
                     @ \/ _architecture \notin
                            requests.handler[h].trace.cycles[requests.handler[h].checked + 1]])
        /\ UNCHANGED <<_architecture, _trace_parser>>
        /\ AppFrame

\* load_trace: after the loop, the answer 400 or the assignment to
\* _trace_parser
LoadFinish ==
    \E h \in Handlers :
        /\ requests.handler[h].kind = "load"
        /\ requests.handler[h].pc = "validate"
        /\ requests.handler[h].checked = Len(requests.handler[h].trace.cycles)
        /\ _trace_parser' = IF requests.handler[h].validation_errors THEN _trace_parser
                            ELSE [loaded |-> TRUE,
                                  cycles |-> requests.handler[h].trace.cycles]
        /\ Handler(h, Free)
        /\ UNCHANGED _architecture
        /\ AppFrame

AppNext ==
    \/ PostArchitecture
    \/ PostLoad
    \/ ArchitectureParse
    \/ ArchitectureClear
    \/ LoadCheck
    \/ LoadParse
    \/ LoadValidate
    \/ LoadFinish

AppSpec == AppInit /\ [][AppNext]_vars

(***************************************************************************)
(* Properties                                                              *)
(***************************************************************************)
DefinedLabels == {lines[i].label : i \in 1..Len(lines)} \ {""}

\* the words that lines before line i produced
WordsBefore(i) == Cardinality({k \in 1..Len(source_map) : source_map[k].line_num < i})

\* C1: when a source assembles, the pc Pass 1 ended on is 4 x the number of
\* words Pass 2 emitted (the count function agrees with the expansion).
C1_PassSizesAgree == phase = "done" => pass1_pc = 4 * Len(instructions)

\* C2: when a source assembles, every label is bound to the address of the
\* first word Pass 2 emits at or after the label's line, or to the end of the
\* image when no instruction follows.
C2_LabelBindsNextWord ==
    phase = "done" =>
        \A i \in 1..Len(lines) :
            lines[i].label # "" => symbols[lines[i].label] = 4 * WordsBefore(i)

\* the last operand of a call: the target of a B-type or J-type instruction
Target(c) == c.ops[Len(c.ops)]

LabelTarget(c) ==
    /\ INSTRUCTIONS[c.mn].format \in {"B", "J"}
    /\ Target(c).k = "id"
    /\ Target(c).s \in DefinedLabels

\* C3: a B-type instruction or jal whose target is a label defined in the
\* source hands the encoder symbol_address - 4 * (index of its word).
C3_LabelOffset ==
    \A n \in 1..Len(enc_log) :
        LabelTarget(enc_log[n]) =>
            enc_log[n].fields.imm = symbols[Target(enc_log[n]).s] - 4 * enc_log[n].index

\* a forward and a backward reference were both encoded
C3_Witness ==
    /\ \E n \in 1..Len(enc_log) : LabelTarget(enc_log[n]) /\ enc_log[n].fields.imm > 0
    /\ \E n \in 1..Len(enc_log) : LabelTarget(enc_log[n]) /\ enc_log[n].fields.imm < 0

\* C4: for -2^31 <= k <= 2^32 - 1 the expansion of `li x5, k` passes the
\* encoder's checks and leaves k mod 2^32 in x5 on the reference interpreter.
C4_LiLoadsValue ==
    (li_stage = "ran" /\ InRange32(LiValue)) =>
        /\ li_rd.ok
        /\ li_rd.val = Big(LiValue.hi % Pow20, LiValue.lo)

\* li x5, 0xFFFFFFFF ran as lui + addi
C4_Witness ==
    /\ li_stage = "ran"
    /\ li_tok = Lit(FALSE, 1048575, 4095)
    /\ Len(li_exp.val) = 2
    /\ li_rd.ok

\* the rule's upper part before masking: floor((imm + 0x800) / 2^12)
RuleUpper(imm) == IF imm.lo >= 2048 THEN imm.hi + 1 ELSE imm.hi

\* the expansion the rule prescribes, given the rule's lower12 as a pair
RuleExpansion(imm, lower) ==
    IF (imm.hi = 0 /\ imm.lo <= 2047) \/ (imm.hi = -1 /\ imm.lo >= 2048)
    THEN <<Real("addi", <<Id("x5"), Id("x0"), StrBig(imm)>>)>>
    ELSE IF lower = Big(0, 0)
    THEN <<Real("lui", <<Id("x5"), Num(RuleUpper(imm) % Pow20)>>)>>
    ELSE <<Real("lui", <<Id("x5"), Num(RuleUpper(imm) % Pow20)>>),
           Real("addi", <<Id("x5"), Id("x5"), StrBig(lower)>>)>>

\* C5 as stated: lower12 = imm - (upper20 << 12) with the masked upper20.
C5_LiRuleAsStated ==
    li_stage = "expanded" =>
        /\ li_exp.ok
        /\ li_exp.val = RuleExpansion(LiValue,
                            Big(LiValue.hi - (RuleUpper(LiValue) % Pow20), LiValue.lo))

\* C5: expand_li emits addi rd, x0, imm when -2048 <= imm <= 2047, else
\* lui rd, u & 0xFFFFF then addi rd, rd, imm - (u << 12) with
\* u = (imm + 0x800) >> 12 taken before the mask, the addi omitted exactly
\* when imm - (u << 12) is 0.
C5_LiRuleAmended ==
    li_stage = "expanded" =>
        /\ li_exp.ok
        /\ li_exp.val = RuleExpansion(LiValue,
                            Big(LiValue.hi - RuleUpper(LiValue), LiValue.lo))

\* li x5, -4097 expanded to lui + addi
C5_Witness ==
    /\ li_stage = "expanded"
    /\ li_tok = Lit(TRUE, 1, 1)
    /\ li_exp.ok
    /\ Len(li_exp.val) = 2

\* C6: the error that ends a run carries the number and the text of the
\* line it was raised on.
C6_ErrorCarriesLine ==
    phase = "error" =>
        /\ err.line_num = lines[idx].line_num
        /\ err.line_text = lines[idx].original

\* some line defines a label that an earlier line defined
HasDuplicate ==
    \E i, j \in 1..Len(lines) :
        i < j /\ lines[j].label # "" /\ lines[i].label = lines[j].label

\* the first line that defines a label again
FirstDuplicate ==
    CHOOSE j \in 1..Len(lines) :
        /\ \E i \in 1..(j - 1) : lines[j].label # "" /\ lines[i].label = lines[j].label
        /\ \A m \in 1..(j - 1) :
               ~\E i \in 1..(m - 1) : lines[m].label # "" /\ lines[i].label = lines[m].label

\* C7: a label defined twice ends the run in Pass 1 with SymbolError at the
\* second definition; the first binding stays, Pass 2 is not entered and
\* nothing is encoded.
C7_DuplicateLabel ==
    /\ [](HasDuplicate =>
            /\ phase \in {"pass1", "error"}
            /\ phase = "pass1" => idx <= FirstDuplicate
            /\ phase = "error" =>
                 /\ err = [etype |-> "SymbolError", line_num |-> FirstDuplicate,
                           line_text |-> source[FirstDuplicate]]
                 /\ idx = FirstDuplicate)
    /\ [][(phase = "pass1" /\ phase' = "error") =>
            /\ symbols' = symbols
            /\ instructions' = instructions
            /\ source_map' = source_map
            /\ enc_log' = enc_log]_vars

\* the run stopped on a second definition whose address differs from the first
C7_Witness ==
    /\ phase = "error"
    /\ err.etype = "SymbolError"
    /\ symbols[lines[idx].label] # current_address

\* the operand positions of a real instruction that must hold a register
RegisterPositions(mn) ==
    LET f == INSTRUCTIONS[mn].format
    IN  IF mn \in {"ecall", "ebreak", "fence"} THEN {}
        ELSE IF f = "R" THEN {1, 2, 3}
        ELSE IF f = "I" THEN (IF mn \in {"lb", "lh", "lw", "lbu", "lhu"} THEN {1} ELSE {1, 2})
        ELSE IF f = "S" THEN {1}
        ELSE IF f = "B" THEN {1, 2}
        ELSE {1}

\* a real instruction with a non-register where a register is required
BadRegister(line) ==
    /\ line.mnemonic \in DOMAIN INSTRUCTIONS
    /\ ~line.is_directive
    /\ \E p \in RegisterPositions(line.mnemonic) :
          /\ p <= Len(line.operands)
          /\ ~(line.operands[p].k = "id" /\ line.operands[p].s \in DOMAIN REGISTER_MAP)

\* C8: a run that stops on an instruction with a bad register name stops
\* with ParseError.
C8_BadRegisterIsParseError ==
    (phase = "error" /\ err.etype # "SymbolError" /\ BadRegister(lines[idx])) =>
        err.etype = "ParseError"

\* an optional '.' followed by one or more word characters
WellFormedLabel(lab) ==
    LET body == IF lab # <<>> /\ Head(lab) = "." THEN Tail(lab) ELSE lab
    IN  body # <<>> /\ \A i \in 1..Len(body) : body[i] \in WordChars

\* C9: a source with a malformed label before a ':' is never accepted.
C9_MalformedLabelRejected ==
    phase = "done" =>
        \A i \in 1..Len(source) : source[i].lab = <<>> \/ WellFormedLabel(source[i].lab)

\* the real instruction a line stands for when it is a branch or jump pseudo
BranchOf(line) ==
    IF line.mnemonic \in {"j", "call", "beqz", "bnez", "blez", "bgez", "bltz", "bgtz"}
    THEN LET e == expand_pseudo(line.mnemonic, line.operands)
         IN  IF e.ok THEN e.val[1] ELSE Real(line.mnemonic, line.operands)
    ELSE Real(line.mnemonic, line.operands)

\* the operand count _parse_operands demands where it resolves an immediate
ImmediateArity(mn) ==
    LET f == INSTRUCTIONS[mn].format
    IN  IF mn \in {"ecall", "ebreak", "fence", "lb", "lh", "lw", "lbu", "lhu"} THEN 0
        ELSE IF f \in {"I", "B"} THEN 3
        ELSE IF f \in {"U", "J"} THEN 2
        ELSE 0

\* the line's last operand is a well-formed name no line defines, in a place
\* Pass 2 resolves against the symbol table, after valid registers
UndefinedReference(line) ==
    LET r == BranchOf(line)
    IN  /\ ~line.is_directive
        /\ r.mn \in DOMAIN INSTRUCTIONS
        /\ ImmediateArity(r.mn) = Len(r.ops)
        /\ Len(r.ops) > 0
        /\ \A p \in 1..(Len(r.ops) - 1) :
              r.ops[p].k = "id" /\ r.ops[p].s \in DOMAIN REGISTER_MAP
        /\ r.ops[Len(r.ops)].k = "id"
        /\ r.ops[Len(r.ops)].s \notin DefinedLabels

\* C10: a reference to a label that no line defines stops Pass 2 at the use
\* site with ParseError carrying that line; the line emits no word.
C10_UndefinedLabel ==
    \A i \in 1..Len(lines) :
        UndefinedReference(lines[i]) =>
            /\ phase # "done"
            /\ phase = "pass2" => idx <= i
            /\ (phase = "error" /\ ~HasDuplicate) =>
                 /\ idx <= i
                 /\ idx = i => err = [etype |-> "ParseError", line_num |-> i,
                                      line_text |-> source[i]]
            /\ \A k \in 1..Len(source_map) : source_map[k].line_num # i

\* Pass 2 stopped on an undefined reference after it had emitted words
C10_Witness ==
    /\ phase = "error"
    /\ err.etype = "ParseError"
    /\ UndefinedReference(lines[idx])
    /\ Len(instructions) > 0

(***************************************************************************)
(* Properties of the encoder                                               *)
(***************************************************************************)
\* the call hands a catalog mnemonic its own descriptor
Matched == e_in.mn = e_in.d

Loads == {"lb", "lh", "lw", "lbu", "lhu"}

Stores == {"sb", "sh", "sw"}

Shifts == {"slli", "srli", "srai"}

\* the I-type mnemonics that are neither shifts nor system instructions
PlainI == {"addi", "slti", "sltiu", "xori", "ori", "andi", "jalr"} \cup Loads

\* C11: a call for addi, slti, sltiu, xori, ori, andi, a load, jalr or a
\* store returns a word exactly when -2048 <= imm <= 2047, a call for slli,
\* srli or srai exactly when 0 <= imm <= 31; any other call for these
\* mnemonics raises EncodingError.
C11_Imm12Range ==
    (e_stage = "encoded" /\ Matched /\ e_in.d \in PlainI \cup Stores \cup Shifts) =>
        /\ e_in.d \in PlainI \cup Stores =>
              (e_out.ok <=> (-2048 <= e_in.imm /\ e_in.imm <= 2047))
        /\ e_in.d \in Shifts => (e_out.ok <=> (0 <= e_in.imm /\ e_in.imm <= 31))
        /\ ~e_out.ok => e_out.etype = "EncodingError"

\* srai with shift amount 32 was refused
C11_Witness ==
    /\ e_stage = "encoded"
    /\ Matched
    /\ e_in.d = "srai"
    /\ e_in.imm = 32
    /\ ~e_out.ok

\* C12: a B-type call returns a word exactly when imm is even and
\* -4096 <= imm <= 4094, a J-type call exactly when imm is even and
\* -1048576 <= imm <= 1048574; every other call raises EncodingError.
C12_BranchJumpRange ==
    (e_stage = "encoded" /\ Matched /\ INSTRUCTIONS[e_in.d].format \in {"B", "J"}) =>
        /\ INSTRUCTIONS[e_in.d].format = "B" =>
              (e_out.ok <=> (e_in.imm % 2 = 0 /\ -4096 <= e_in.imm /\ e_in.imm <= 4094))
        /\ INSTRUCTIONS[e_in.d].format = "J" =>
              (e_out.ok <=> (e_in.imm % 2 = 0 /\ -1048576 <= e_in.imm
                             /\ e_in.imm <= 1048574))
        /\ ~e_out.ok => e_out.etype = "EncodingError"

\* a branch with the odd offset -4095, inside the interval, was refused
C12_Witness ==
    /\ e_stage = "encoded"
    /\ Matched
    /\ INSTRUCTIONS[e_in.d].format = "B"
    /\ e_in.imm = -4095
    /\ ~e_out.ok

\* C13: a U-type call returns a word exactly when -2^19 <= imm <= 2^20 - 1,
\* and the word then holds imm mod 2^20 in bits 31..12; every other call
\* raises EncodingError.
C13_UpperRange ==
    (e_stage = "encoded" /\ Matched /\ INSTRUCTIONS[e_in.d].format = "U") =>
        /\ e_out.ok <=> (0 - 2^19 <= e_in.imm /\ e_in.imm <= 2^20 - 1)
        /\ e_out.ok => e_out.val.hi = e_in.imm % 2^20
        /\ ~e_out.ok => e_out.etype = "EncodingError"

\* lui with 0xFFFFF, outside the signed range, was encoded
C13_Witness ==
    /\ e_stage = "encoded"
    /\ Matched
    /\ e_in.d = "lui"
    /\ e_in.imm = 2^20 - 1
    /\ e_out.ok
    /\ e_out.val.hi = 2^20 - 1

\* the fields of a word by the RISC-V layout: opcode 6..0, rd 11..7,
\* funct3 14..12, rs1 19..15, rs2 24..20, funct7 31..25
OpcodeOf(w) == w.lo % 128

RdOf(w) == w.lo \div 128

Funct3Of(w) == w.hi % 8

Rs1Of(w) == (w.hi \div 8) % 32

Rs2Of(w) == (w.hi \div 256) % 32

Funct7Of(w) == w.hi \div 8192

\* the two's-complement value of a field of the given width
SignExtend(f, bits) == IF f >= 2^(bits - 1) THEN f - 2^bits ELSE f

\* imm[11:0] in 31..20
ImmIOf(w) == SignExtend(w.hi \div 256, 12)

\* imm[11:5] in 31..25, imm[4:0] in 11..7
ImmSOf(w) == SignExtend(Funct7Of(w) * 32 + RdOf(w), 12)

\* imm[31:12] in 31..12
ImmUOf(w) == w.hi

\* C14: the word of an accepted R-type, plain I-type (fence included),
\* S-type or U-type call decodes to the registers the format carries and to
\* the immediate (sign-extended from 12 bits, modulo 2^20 for U), and its
\* opcode, funct3 and funct7 are the catalog's (funct7 also for the shifts).
C14_DecodeRoundTrip ==
    (e_stage = "encoded" /\ Matched /\ e_out.ok) =>
        LET i == INSTRUCTIONS[e_in.d]
            w == e_out.val
        IN  /\ (i.format \in {"R", "S", "U"} \/ e_in.d \in PlainI \cup Shifts \cup {"fence"}) =>
                  OpcodeOf(w) = i.opcode
            /\ (i.format \in {"R", "S"} \/ e_in.d \in PlainI \cup Shifts \cup {"fence"}) =>
                  Funct3Of(w) = i.funct3
            /\ (i.format = "R" \/ e_in.d \in Shifts) => Funct7Of(w) = i.funct7
            /\ i.format = "R" =>
                  RdOf(w) = e_in.rd /\ Rs1Of(w) = e_in.rs1 /\ Rs2Of(w) = e_in.rs2
            /\ e_in.d \in PlainI \cup {"fence"} =>
                  RdOf(w) = e_in.rd /\ Rs1Of(w) = e_in.rs1 /\ ImmIOf(w) = e_in.imm
            /\ i.format = "S" =>
                  Rs1Of(w) = e_in.rs1 /\ Rs2Of(w) = e_in.rs2 /\ ImmSOf(w) = e_in.imm
            /\ i.format = "U" => RdOf(w) = e_in.rd /\ ImmUOf(w) = e_in.imm % 2^20

\* a store with a negative offset and two different registers was encoded
C14_Witness ==
    /\ e_stage = "encoded"
    /\ Matched
    /\ e_in.d = "sw"
    /\ e_in.imm = -2047
    /\ e_in.rs1 = 31
    /\ e_in.rs2 # e_in.rs1
    /\ e_out.ok

\* imm[12] in 31, imm[10:5] in 30..25, imm[4:1] in 11..8, imm[11] in 7
ImmBOf(w) ==
    SignExtend((w.hi \div 524288) * 4096 + ((w.lo \div 128) % 2) * 2048
               + ((w.hi \div 8192) % 64) * 32 + (w.lo \div 256) * 2, 13)

\* imm[20] in 31, imm[10:1] in 30..21, imm[11] in 20, imm[19:12] in 19..12
ImmJOf(w) ==
    SignExtend((w.hi \div 524288) * 1048576 + (w.hi % 256) * 4096
               + ((w.hi \div 256) % 2) * 2048 + ((w.hi \div 512) % 1024) * 2, 21)

\* C15: the word of an accepted B-type or J-type call carries the
\* two's-complement bits of imm at the format's scattered positions:
\* putting them together again and sign-extending from 13 (B) or 21 (J)
\* bits gives imm.
C15_ScatteredOffset ==
    (e_stage = "encoded" /\ Matched /\ e_out.ok) =>
        /\ INSTRUCTIONS[e_in.d].format = "B" => ImmBOf(e_out.val) = e_in.imm
        /\ INSTRUCTIONS[e_in.d].format = "J" => ImmJOf(e_out.val) = e_in.imm

\* jal with the negative offset -0xAAAAA was encoded
C15_Witness ==
    /\ e_stage = "encoded"
    /\ Matched
    /\ e_in.d = "jal"
    /\ e_in.imm = -699050
    /\ e_out.ok

\* the call of the harness with another descriptor and mnemonic string
Recall(m) ==
    encode_instruction(INSTRUCTIONS[m[1]], m[2], e_in.rd, e_in.rs1, e_in.rs2, e_in.imm)

\* C16 as stated: a call with an equal descriptor (format, opcode, funct3,
\* funct7) and equal rd, rs1, rs2, imm returns what this call returned,
\* whatever its mnemonic string.
C16_WordFromDescriptorAlone ==
    e_stage = "encoded" =>
        \A m \in Mnemonics :
            INSTRUCTIONS[m[1]] = INSTRUCTIONS[e_in.d] => Recall(m) = e_out

\* the mnemonic string's entry in the system table, None without one
SystemImmOf(s) == IF s \in DOMAIN SYSTEM_IMM THEN SYSTEM_IMM[s] ELSE None

\* C16: a call with an equal descriptor and equal rd, rs1, rs2, imm returns
\* what this call returned when its mnemonic string has the same entry in
\* the system table (or none either) and is a shift mnemonic (slli, srli,
\* srai) exactly when this call's is.
C16_WordFromDescriptorAndKind ==
    e_stage = "encoded" =>
        \A m \in Mnemonics :
            ( /\ INSTRUCTIONS[m[1]] = INSTRUCTIONS[e_in.d]
              /\ SystemImmOf(m[2]) = SystemImmOf(e_in.mn)
              /\ (m[2] \in Shifts <=> e_in.mn \in Shifts) ) => Recall(m) = e_out

\* the descriptor of ecall with the string "ebreak" gave ebreak's word
C16_Witness ==
    /\ e_stage = "encoded"
    /\ e_in.d = "ecall"
    /\ e_in.mn = "ebreak"
    /\ e_out = Ok([hi |-> 256, lo |-> 115])

HexDigits == {HexChars[i] : i \in 1..16}

\* C17: every word encode_instruction returns lies in 0 .. 2^32 - 1 (in the
\* six formats every bit of the word belongs to a field, so no bit is set
\* outside them), and the rendering of the word is one line of exactly
\* eight lower-case hexadecimal digits.
C17_WordIs32Bits ==
    /\ (e_stage \in {"encoded", "rendered"} /\ e_out.ok) =>
          /\ 0 <= e_out.val.hi /\ e_out.val.hi < 2^20
          /\ 0 <= e_out.val.lo /\ e_out.val.lo < 2^12
    /\ e_stage = "rendered" =>
          /\ Len(e_hex) = 1
          /\ Len(e_hex[1]) = 8
          /\ \A k \in 1..Len(e_hex[1]) : e_hex[1][k] \in HexDigits
          /\ e_hex[1] = ZeroPad(hex(e_out.val.hi), 5) \o ZeroPad(hex(e_out.val.lo), 3)

\* lui x31, -1 was rendered as fffffxxx
C17_Witness ==
    /\ e_stage = "rendered"
    /\ e_in.d = "lui"
    /\ e_in.imm = -1
    /\ e_in.rd = 31
    /\ e_hex = << <<"f", "f", "f", "f", "f", "f", "b", "7">> >>

(***************************************************************************)
(* Properties of Pass 2's image                                            *)
(***************************************************************************)
\* the run has entered Pass 2 (Pass 1 raises nothing but SymbolError)
InPass2 == phase \in {"pass2", "done"} \/ (phase = "error" /\ err.etype # "SymbolError")

\* C18: from the start of Pass 2 on, current_address is 4 x the number of
\* words and the source map has one entry per word; entry k (from 0) holds
\* address 4k and the number and text of the line whose instruction was
\* encoded as word k.
C18_AddressesAndSourceMap ==
    InPass2 =>
        /\ current_address = 4 * Len(instructions)
        /\ Len(source_map) = Len(instructions)
        /\ \A k \in 1..Len(source_map) :
              /\ source_map[k].addr = 4 * (k - 1)
              /\ source_map[k].line_num \in 1..Len(source)
              /\ source_map[k].original = source[source_map[k].line_num]
              /\ \E n \in 1..Len(enc_log) :
                    /\ enc_log[n].index = k - 1
                    /\ enc_log[n].line_num = source_map[k].line_num

\* two words from two lines, after a line that emitted nothing
C18_Witness ==
    /\ phase = "done"
    /\ Len(instructions) = 2
    /\ source_map[1].line_num = 2
    /\ source_map[2].line_num = 3

\* the lines that produced two words
TwoWordLines ==
    {i \in 1..Len(lines) :
        Cardinality({k \in 1..Len(source_map) : source_map[k].line_num = i}) = 2}

\* C19: the image is in source order: the words' line numbers never
\* decrease along the image, a two-word li is its lui followed by its addi,
\* and a step of Pass 2 only appends to the image.
C19_SourceOrder ==
    /\ [](InPass2 =>
            /\ \A k, l \in 1..Len(source_map) :
                  k < l => source_map[k].line_num <= source_map[l].line_num
            /\ \A k \in 1..(Len(source_map) - 1) :
                  (source_map[k].line_num \in TwoWordLines
                   /\ source_map[k + 1].line_num = source_map[k].line_num) =>
                      /\ lines[source_map[k].line_num].mnemonic = "li"
                      /\ OpcodeOf(instructions[k]) = INSTRUCTIONS["lui"].opcode
                      /\ OpcodeOf(instructions[k + 1]) = INSTRUCTIONS["addi"].opcode)
    /\ [][phase = "pass2" =>
            /\ Len(instructions') >= Len(instructions)
            /\ SubSeq(instructions', 1, Len(instructions)) = instructions]_vars

\* one word of an earlier line, then the two words of a li
C19_Witness ==
    /\ phase = "done"
    /\ Len(instructions) = 3
    /\ source_map[1].line_num < source_map[2].line_num
    /\ source_map[2].line_num = source_map[3].line_num

\* the source line holds no instruction: it is blank, a comment, a label
\* alone or a directive, its label (if any) well formed
NoInstruction(raw) ==
    /\ raw.lab = <<>> \/ WellFormedLabel(raw.lab)
    /\ raw.mn = "" \/ raw.mn \in Directives

\* C20: a line that holds no instruction leaves the pc as it is in Pass 1,
\* where its label (when it is not a duplicate) is bound to that pc, and
\* leaves pc, image and source map as they are in Pass 2.
C20_ZeroLengthLines ==
    [][(idx <= Len(lines) /\ NoInstruction(source[idx])) =>
         /\ phase = "pass1" =>
               /\ current_address' = current_address
               /\ (phase' = "pass1" /\ source[idx].lab # <<>>) =>
                     /\ Join(source[idx].lab) \in DOMAIN symbols'
                     /\ symbols'[Join(source[idx].lab)] = current_address
         /\ phase = "pass2" =>
               /\ phase' = "pass2"
               /\ current_address' = current_address
               /\ instructions' = instructions
               /\ source_map' = source_map]_vars

\* Pass 2 has passed a line that holds only the label L, bound past address 0
C20_Witness ==
    /\ phase = "pass2"
    /\ idx > 1
    /\ NoInstruction(source[idx - 1])
    /\ source[idx - 1].lab = <<"L">>
    /\ symbols["L"] > 0
    /\ Len(instructions) > 0


\* line i of the source raises when Pass 2 reaches it (unknown mnemonic,
\* operand count or shape, register name, immediate out of range), with
\* every label of the source defined
RaisesInPass2(i) ==
    pass2_line(lines[i], [n \in DefinedLabels |-> 0],
               [instructions |-> <<>>, source_map |-> <<>>, current_address |-> 0,
                enc_log |-> <<>>, err |-> NoError]).err.etype # ""

\* C28: when a source holds a line that raises in Pass 2 and, on a later
\* line, the second definition of a label, the run ends in the SymbolError
\* of that later line and Pass 2 has encoded nothing; the exception of a run
\* is set once, by the step that ends the run, and no step follows it.
C28_ProcessingOrder ==
    /\ []((/\ phase \in {"done", "error"}
           /\ HasDuplicate
           /\ \E i \in 1..(FirstDuplicate - 1) : RaisesInPass2(i))
          => /\ phase = "error"
             /\ err.etype = "SymbolError"
             /\ err.line_num = FirstDuplicate
             /\ enc_log = <<>>
             /\ instructions = <<>>)
    /\ [][(err' # err => (err = NoError /\ phase' = "error"))
          /\ (phase = "error" => FALSE)]_vars

\* the run ended on the duplicate label of line 3 although line 1 or line 2
\* raises in Pass 2
C28_Witness ==
    /\ phase = "error"
    /\ err.etype = "SymbolError"
    /\ err.line_num = 3
    /\ \E i \in 1..2 : RaisesInPass2(i) /\ lines[i].label = ""

(***************************************************************************)
(* Properties of an instance used for several calls                        *)
(***************************************************************************)
\* the current call assembles the source the previous call accepted, with
\* that source's label uses written as literals
IsReplacedRun ==
    /\ history # <<>>
    /\ Last(history).phase = "done"
    /\ source # Last(history).source
    /\ source = Replaced(Last(history).source, Last(history).symbols,
                         Last(history).source_map)

FileBefore == IF history = <<>> THEN NoFile ELSE Last(history).out_file

DigitValue(c) == CHOOSE v \in 0..15 : HexChars[v + 1] = c

RECURSIVE HexValue(_)
\* the number a sequence of hexadecimal digits denotes
HexValue(cs) ==
    IF cs = <<>> THEN 0
    ELSE 16 * HexValue(SubSeq(cs, 1, Len(cs) - 1)) + DigitValue(cs[Len(cs)])

\* the word a line of the output file denotes
WordOfLine(l) == [hi |-> HexValue(SubSeq(l, 1, 5)), lo |-> HexValue(SubSeq(l, 6, 8))]

\* the file holds the image: one line of eight digits and a newline per
\* word, in the order of the image
HoldsImage(file, instrs) ==
    /\ Len(file) = Len(instrs)
    /\ \A k \in 1..Len(instrs) :
         /\ Len(file[k]) = 9
         /\ file[k][9] = "\n"
         /\ WordOfLine(file[k]) = instrs[k]

\* C22: the output file is written only by the step that follows the end of
\* Pass 2 of a call that raised nothing: while a call runs and after it
\* raised (opening the input, in Pass 1 or in Pass 2) the file is as it was
\* before the call, and after a successful assemble_file with an output path
\* the file holds exactly the words of the image, in order.
C22_WriteAfterBothPasses ==
    /\ [](/\ phase \in {"pass1", "pass2", "error"} => out_file = FileBefore
          /\ (phase = "done" /\ entry.output_path # "") =>
                 HoldsImage(out_file, instructions)
          /\ (phase = "done" /\ entry.output_path = "") => out_file = FileBefore)
    /\ [][out_file' # out_file =>
             /\ phase = "pass2" /\ idx > Len(lines) /\ err.etype = ""
             /\ phase' = "done"]_vars

\* an assemble_file call raised in Pass 2 after it had encoded words, and
\* the file an earlier call wrote is still there
C22_Witness ==
    /\ phase = "error"
    /\ err.etype = "EncodingError"
    /\ entry.output_path # ""
    /\ instructions # <<>>
    /\ out_file # NoFile
    /\ Len(out_file) = 6
    /\ ~HoldsImage(out_file, instructions)

\* C24: when an accepted source is assembled on an instance whose first call
\* assembled the same source, whatever calls were made in between (accepted,
\* raised in Pass 1, raised in Pass 2, unreadable input), the call leaves the
\* symbols, instructions and source_map that the first call, on the new
\* instance, left; and no step of Pass 2 changes the symbol table.
C24_RunsStartFromScratch ==
    /\ []((/\ phase = "done"
           /\ history # <<>>
           /\ history[1].phase = "done"
           /\ history[1].source = source)
          => /\ symbols = history[1].symbols
             /\ instructions = history[1].instructions
             /\ source_map = history[1].source_map)
    /\ [][phase = "pass2" => symbols' = symbols]_vars

\* the source of the first call is accepted again after a call on another
\* source raised in Pass 2 and left words and symbols behind
C24_Witness ==
    /\ phase = "done"
    /\ Len(history) = 2
    /\ history[1].phase = "done"
    /\ history[1].source = source
    /\ history[2].phase = "error"
    /\ history[2].source # source
    /\ history[2].instructions # <<>>
    /\ history[2].instructions # instructions
    /\ history[2].symbols # symbols

\* the image as it was when the current call was made
ImageBefore ==
    IF history = <<>> THEN [instructions |-> <<>>, source_map |-> <<>>]
    ELSE [instructions |-> Last(history).instructions,
          source_map |-> Last(history).source_map]

\* the words line i stands for: those of its expansion, one when it is a
\* real instruction, none when it holds no instruction
ExpansionSize(line) ==
    IF line.mnemonic = "" \/ line.is_directive THEN 0
    ELSE IF is_pseudo_instruction(line.mnemonic)
            /\ expand_pseudo(line.mnemonic, line.operands).ok
    THEN Len(expand_pseudo(line.mnemonic, line.operands).val)
    ELSE 1

\* the words line i has in the image
WordsOfLine(i) == Cardinality({k \in 1..Len(source_map) : source_map[k].line_num = i})

\* C29: after a call that raised in Pass 1, instructions and source_map are
\* what they were before the call; after a call that raised in Pass 2 on
\* line L, source_map is as long as instructions, every instruction line
\* before L has all its words in the image, no later line has any, and line L
\* has all words of its expansion or none.
C29_StateAfterFailedRun ==
    /\ (phase = "error" /\ err.etype = "SymbolError") =>
          /\ instructions = ImageBefore.instructions
          /\ source_map = ImageBefore.source_map
    /\ (phase = "error" /\ err.etype \notin {"SymbolError", "FileNotFoundError"}) =>
          /\ Len(source_map) = Len(instructions)
          /\ \A i \in 1..(idx - 1) : WordsOfLine(i) = ExpansionSize(lines[i])
          /\ \A i \in (idx + 1)..Len(lines) : WordsOfLine(i) = 0
          /\ WordsOfLine(idx) \in {0, ExpansionSize(lines[idx])}

(***************************************************************************)
(* Properties of sources assembled on their own                            *)
(***************************************************************************)
\* the word line i of the source assembled to
WordOfSourceLine(i) ==
    instructions[CHOOSE k \in 1..Len(source_map) : source_map[k].line_num = i]

\* line a is jalr rd, rs1, imm and line b is jalr rd, imm(rs1), for the same
\* registers and the same literal imm inside -2048..2047
SameJalr(a, b) ==
    /\ a.mn = "jalr" /\ b.mn = "jalr"
    /\ Len(a.ops) = 3 /\ Len(b.ops) = 2
    /\ a.ops[3].k = "num" /\ b.ops[2].k = "mem" /\ b.ops[2].off = "num"
    /\ a.ops[1] = b.ops[1]
    /\ a.ops[2].s = b.ops[2].s
    /\ parse_immediate(a.ops[3]) = parse_immediate(Lit(b.ops[2].neg, b.ops[2].hi, b.ops[2].lo))
    /\ BigLe(BigOf(-2048), parse_immediate(a.ops[3]).val)
    /\ BigLe(parse_immediate(a.ops[3]).val, BigOf(2047))

\* line a is a jr or ret and line b the jalr it stands for
SameJr(a, b) ==
    /\ b.mn = "jalr"
    /\ \/ a.mn = "jr" /\ Len(a.ops) = 1 /\ b.ops = <<Id("x0"), a.ops[1], Num(0)>>
       \/ a.mn = "ret" /\ a.ops = <<>> /\ b.ops = <<Id("x0"), Id("ra"), Num(0)>>

SystemHex(mn) ==
    IF mn = "ecall" THEN <<"0", "0", "0", "0", "0", "0", "7", "3">>
    ELSE IF mn = "ebreak" THEN <<"0", "0", "1", "0", "0", "0", "7", "3">>
    ELSE <<"0", "0", "0", "0", "0", "0", "0", "f">>

\* C25: a source whose one statement is ecall, ebreak or fence, followed by
\* any operand texts (registers, unknown names, literals out of any range,
\* memory operands, too many operands), is accepted and assembles to the one
\* word 00000073, 00100073 or 0000000f: opcode and system immediate only, rd
\* and rs1 zero.
C25_SystemOperandsIgnored ==
    (phase \in {"done", "error"} /\ Len(source) = 1
        /\ source[1].mn \in {"ecall", "ebreak", "fence"})
    => /\ phase = "done"
       /\ get_hex_string(instructions) = <<SystemHex(source[1].mn)>>
       /\ RdOf(instructions[1]) = 0
       /\ Rs1Of(instructions[1]) = 0
       /\ Funct3Of(instructions[1]) = 0
       /\ ImmIOf(instructions[1]) = (IF source[1].mn = "ebreak" THEN 1 ELSE 0)

\* ebreak followed by four operands, the last out of every range
C25_Witness ==
    /\ phase = "done"
    /\ Len(source) = 1
    /\ source[1].mn = "ebreak"
    /\ Len(source[1].ops) = 4
    /\ source[1].ops[4] = Num(4096)
    /\ Len(instructions) = 1

\* C26: each scenario of the spec assembles, on its own at address 0, to
\* exactly the words the spec lists for it.
C26_ScenarioWords ==
    \A k \in 1..Len(Scenarios) :
        (phase \in {"done", "error"} /\ source = Scenarios[k].src)
        => (phase = "done" /\ get_hex_string(instructions) = Scenarios[k].hex)

\* li x10, 0x12345678 has assembled to its two words
C26_Witness ==
    /\ phase = "done"
    /\ source = Scenarios[8].src
    /\ Len(instructions) = 2

(***************************************************************************)
(* Properties of the visualizer                                            *)
(***************************************************************************)
StageIds(arch) == {arch.stages[i].id : i \in 1..Len(arch.stages)}

SharedId(arch) ==
    \E i, j \in 1..Len(arch.stages) : i # j /\ arch.stages[i].id = arch.stages[j].id

UndefinedHazardStage(arch) ==
    \/ \E i \in 1..Len(arch.hazards.stall_signals) :
          arch.hazards.stall_signals[i].stage \notin StageIds(arch)
    \/ \E i \in 1..Len(arch.hazards.flush_signals) :
          arch.hazards.flush_signals[i].stage \notin StageIds(arch)

UndefinedForwardingStage(arch) ==
    \E i \in 1..Len(arch.forwarding.paths) :
        \/ arch.forwarding.paths[i].target_stage \notin StageIds(arch)
        \/ \E j \in 1..Len(arch.forwarding.paths[i].sources) :
              arch.forwarding.paths[i].sources[j].stage \notin StageIds(arch)

\* C27: parse_architecture ends in ArchitectureError when two stages share
\* an id, when a stall or flush signal names a stage that is no stage id,
\* and, unless forwarding.enabled is false, when a path's target_stage or a
\* source's stage is no stage id; a named architecture with stages that has
\* none of the first two defects and forwarding.enabled false is accepted,
\* whatever stages its paths name.
C27_StageReferencesChecked ==
    arch_stage = "parsed" =>
        /\ (arch_in.mapping /\ SharedId(arch_in)) => arch_out = "ArchitectureError"
        /\ (arch_in.mapping /\ UndefinedHazardStage(arch_in))
               => arch_out = "ArchitectureError"
        /\ (arch_in.mapping /\ arch_in.forwarding.enabled # "false"
               /\ UndefinedForwardingStage(arch_in))
               => arch_out = "ArchitectureError"
        /\ (arch_in.mapping /\ arch_in.named /\ arch_in.stages # <<>>
               /\ ~SharedId(arch_in) /\ ~UndefinedHazardStage(arch_in)
               /\ arch_in.forwarding.enabled = "false")
               => arch_out = "accepted"

\* every cycle of the trace validates against the architecture
Validates(cycles, arch) == \A k \in 1..Len(cycles) : arch \in cycles[k]

\* no request is being handled
Quiet == \A h \in Handlers : requests.handler[h].kind = "free"

\* C30: whenever no request is being handled and a trace is loaded, an
\* architecture is loaded and the trace validates against it; the step that
\* ends a successful architecture upload leaves no trace loaded, and a step
\* that ends a failed upload of either kind changes neither global.
C30_TraceMatchesArchitecture ==
    /\ []((Quiet /\ _trace_parser.loaded) =>
            (_architecture # "None" /\ Validates(_trace_parser.cycles, _architecture)))
    /\ [][\A h \in Handlers :
            /\ (requests.handler[h].pc = "clear" /\ requests'.handler[h].kind = "free")
                  => ~_trace_parser'.loaded
            /\ (/\ requests.handler[h].kind # "free"
                /\ requests'.handler[h].kind = "free"
                /\ requests.handler[h].pc # "clear"
                /\ (requests.handler[h].pc = "validate"
                       => requests.handler[h].validation_errors))
                  => UNCHANGED <<_architecture, _trace_parser>>]_vars

====
